---- MODULE Spec2Model ----
(***************************************************************************)
(* A model of the LC-3 toolchain: the ISA codec (slice_bits, is_bit_set,   *)
(* sign_extend, Instruction::from) of src/src/lc3/instructions.rs and the  *)
(* Machine (new, get_reg, set_reg, execute, run) of src/src/lc3/mod.rs.    *)
(*                                                                         *)
(* All machine words are u16.  Rust arithmetic on u16 is checked when the  *)
(* crate is built with overflow checks (the default of `cargo build` and   *)
(* `cargo test`) and wraps when it is built without (`--release`); the     *)
(* variable overflow_checks is the build profile, chosen once in Init.     *)
(***************************************************************************)
EXTENDS Integers, Sequences, FiniteSets, TLC

VARIABLES
    overflow_checks,  \* TRUE: debug profile (overflow panics); FALSE: release (wraps)
    call,             \* the codec function under call and its arguments
    ret,              \* the outcome of that call
    regs,             \* Machine.regs
    pc,               \* Machine.pc
    cc_neg,           \* Machine.cc_neg
    cc_pos,           \* Machine.cc_pos
    cc_zero,          \* Machine.cc_zero
    memory,           \* Machine.memory: [len, fill] (no cell is ever written)
    words,            \* the slice handed to run()
    idx,              \* position of run()'s loop in words
    status,           \* "idle" | "running" | "halted" | "panicked"
    executed,         \* history: the indices of words that execute() was called on
    steps,            \* number of execute() calls made on this Machine so far
    source,           \* lexer: Reader.source, the characters of the text under lex()
    lex_reader,       \* lexer: Reader's cursor [offset, char_in_line, line]
    tokens,           \* lexer: the tokens pushed so far by Lexer::lex
    lex_state,        \* "idle" | "lexing" | "ok" | "err" | "panicked"
    lex_error,        \* lexer: the LexError returned, when lex_state = "err"
    parse_reader,     \* Parser.reader: [items, offset, item_in_line, line]
    labels,           \* Parser.labels
    orig,             \* Parser.orig
    instructions,     \* Parser.instructions
    parse_state,      \* "idle" | "find_labels" | "parse" | "ok" | "err" | "panicked"
    parse_error       \* the ParseError returned, when parse_state = "err"

vars == << overflow_checks, call, ret, regs, pc, cc_neg, cc_pos, cc_zero,
           memory, words, idx, status, executed, steps,
           source, lex_reader, tokens, lex_state, lex_error,
           parse_reader, labels, orig, instructions, parse_state, parse_error >>

codecVars == << call, ret >>
machineVars == << regs, pc, cc_neg, cc_pos, cc_zero, memory >>
runVars == << words, idx, status, executed, steps >>
lexVars == << source, lex_reader, tokens, lex_state, lex_error >>
parseVars == << parse_reader, labels, orig, instructions, parse_state, parse_error >>
asmVars == << lexVars, parseVars >>

----------------------------------------------------------------------------
(* u16 arithmetic *)

WORD_BITS == 16
WORD_MOD == 2 ^ WORD_BITS
WORD_MAX == WORD_MOD - 1

RECURSIVE BitAnd(_, _)
BitAnd(a, b) ==
    IF a = 0 \/ b = 0 THEN 0
    ELSE (a % 2) * (b % 2) + 2 * BitAnd(a \div 2, b \div 2)

RECURSIVE BitOr(_, _)
BitOr(a, b) ==
    IF a = 0 THEN b
    ELSE IF b = 0 THEN a
    ELSE (IF a % 2 = 1 \/ b % 2 = 1 THEN 1 ELSE 0) + 2 * BitOr(a \div 2, b \div 2)

RECURSIVE BitXor(_, _)
BitXor(a, b) ==
    IF a = 0 THEN b
    ELSE IF b = 0 THEN a
    ELSE ((a + b) % 2) + 2 * BitXor(a \div 2, b \div 2)

\* `x >> n` on u16, n < 16
Shr(x, n) == x \div (2 ^ n)

\* `x << n` on u16: a shift by n >= 16 panics with overflow checks ...
ShlOverflows(n) == n >= WORD_BITS
\* ... and otherwise shifts by n mod 16, dropping the bits shifted out
WrappingShl(x, n) == (x * (2 ^ (n % WORD_BITS))) % WORD_MOD

----------------------------------------------------------------------------
(* src/src/lc3/instructions.rs *)

OPCODE_ADD == 1
OPCODE_AND == 5
OPCODE_BR == 0
OPCODE_JMP == 12
OPCODE_JSR == 4
OPCODE_LD == 2
OPCODE_LDI == 10
OPCODE_LDR == 6
OPCODE_LEA == 14
OPCODE_NOT == 9
OPCODE_RTI == 8
OPCODE_ST == 3
OPCODE_STI == 11
OPCODE_STR == 7
OPCODE_TRAP == 15

\* let mask = (1 << slice_size) - 1: the mask forgets the +1 of slice_size
slice_bits_short(instruction, from, to) ==
    LET slice_size == from - to
        mask == WrappingShl(1, slice_size) - 1
    IN  BitAnd(Shr(instruction, to), mask)

\* instruction >> to: the & mask is forgotten
slice_bits_unmasked(instruction, from, to) == Shr(instruction, to)

\* fn slice_bits(instruction, from, to): the returned value
slice_bits(instruction, from, to) ==
    LET slice_size == from - to + 1
        mask == WrappingShl(1, slice_size) - 1
    IN  BitAnd(Shr(instruction, to), mask)

\* fn slice_bits: whether the call panics (1 << slice_size overflows)
slice_bits_panics(from, to) ==
    overflow_checks /\ ShlOverflows(from - to + 1)

\* instruction & bit == bit: the shift 1 << bit is forgotten
is_bit_set_noshift(instruction, bit) ==
    BitAnd(instruction, bit) = bit

\* fn is_bit_set(instruction, bit): the returned value
is_bit_set(instruction, bit) ==
    BitAnd(instruction, WrappingShl(1, bit)) = WrappingShl(1, bit)

\* fn is_bit_set: whether the call panics (1 << bit overflows)
is_bit_set_panics(bit) ==
    overflow_checks /\ ShlOverflows(bit)

\* tests bit `size` instead of bit `size - 1`
sign_extend_offbyone(n, size) ==
    IF is_bit_set(n, size)
    THEN BitOr(n, BitXor(WORD_MAX, WrappingShl(1, size) - 1))
    ELSE n

\* fn sign_extend(n, size): the returned value
sign_extend(n, size) ==
    IF is_bit_set(n, size - 1)
    THEN BitOr(n, BitXor(WORD_MAX, WrappingShl(1, size) - 1))
    ELSE n

\* fn sign_extend: whether the call panics (1 << size is evaluated only when
\* the sign bit is set)
sign_extend_panics(n, size) ==
    \/ is_bit_set_panics(size - 1)
    \/ is_bit_set(n, size - 1) /\ overflow_checks /\ ShlOverflows(size)

\* the match of Instruction::from on the opcode
decode_arm(opcode, instruction) ==
    CASE opcode = OPCODE_ADD ->
            IF is_bit_set(instruction, 5)
            THEN [ tag |-> "AddImmediate",
                   dest |-> slice_bits(instruction, 11, 9),
                   source |-> slice_bits(instruction, 8, 6),
                   value |-> sign_extend(slice_bits(instruction, 4, 0), 5) ]
            ELSE [ tag |-> "Add",
                   dest |-> slice_bits(instruction, 11, 9),
                   source_1 |-> slice_bits(instruction, 8, 6),
                   source_2 |-> slice_bits(instruction, 2, 0) ]
      [] opcode = OPCODE_AND ->
            IF is_bit_set(instruction, 5)
            THEN [ tag |-> "AndImmediate",
                   dest |-> slice_bits(instruction, 11, 9),
                   source |-> slice_bits(instruction, 8, 6),
                   value |-> sign_extend(slice_bits(instruction, 4, 0), 5) ]
            ELSE [ tag |-> "And",
                   dest |-> slice_bits(instruction, 11, 9),
                   source_1 |-> slice_bits(instruction, 8, 6),
                   source_2 |-> slice_bits(instruction, 2, 0) ]
      [] opcode = OPCODE_BR ->
            [ tag |-> "Br",
              n |-> is_bit_set(instruction, 11),
              z |-> is_bit_set(instruction, 10),
              p |-> is_bit_set(instruction, 9),
              pc_offset |-> sign_extend(slice_bits(instruction, 8, 0), 9) ]
      [] opcode = OPCODE_JMP ->
            LET base == slice_bits(instruction, 8, 6)
            IN  IF base = 7 THEN [ tag |-> "Ret" ]
                ELSE [ tag |-> "Jmp", base |-> base ]
      [] opcode = OPCODE_JSR ->
            IF is_bit_set(instruction, 11)
            THEN [ tag |-> "Jsr",
                   pc_offset |-> sign_extend(slice_bits(instruction, 10, 0), 11) ]
            ELSE [ tag |-> "JsrR", base |-> slice_bits(instruction, 8, 6) ]
      [] opcode = OPCODE_LD ->
            [ tag |-> "Ld",
              dest |-> slice_bits(instruction, 11, 9),
              pc_offset |-> sign_extend(slice_bits(instruction, 8, 0), 9) ]
      [] opcode = OPCODE_LDI ->
            [ tag |-> "LdI",
              dest |-> slice_bits(instruction, 11, 9),
              pc_offset |-> sign_extend(slice_bits(instruction, 8, 0), 9) ]
      [] opcode = OPCODE_LDR ->
            [ tag |-> "LdR",
              dest |-> slice_bits(instruction, 11, 9),
              base |-> slice_bits(instruction, 8, 6),
              offset |-> sign_extend(slice_bits(instruction, 5, 0), 6) ]
      [] opcode = OPCODE_LEA ->
            [ tag |-> "Lea",
              dest |-> slice_bits(instruction, 11, 9),
              pc_offset |-> sign_extend(slice_bits(instruction, 8, 0), 9) ]
      [] opcode = OPCODE_NOT ->
            [ tag |-> "Not",
              dest |-> slice_bits(instruction, 11, 9),
              source |-> slice_bits(instruction, 8, 6) ]
      [] opcode = OPCODE_RTI -> [ tag |-> "Rti" ]
      [] opcode = OPCODE_ST ->
            [ tag |-> "St",
              source |-> slice_bits(instruction, 11, 9),
              pc_offset |-> sign_extend(slice_bits(instruction, 8, 0), 9) ]
      [] opcode = OPCODE_STI ->
            [ tag |-> "StI",
              source |-> slice_bits(instruction, 11, 9),
              pc_offset |-> sign_extend(slice_bits(instruction, 8, 0), 9) ]
      [] opcode = OPCODE_STR ->
            [ tag |-> "StR",
              source |-> slice_bits(instruction, 11, 9),
              base |-> slice_bits(instruction, 8, 6),
              offset |-> sign_extend(slice_bits(instruction, 5, 0), 6) ]
      [] opcode = OPCODE_TRAP ->
            [ tag |-> "Trap", vec |-> slice_bits(instruction, 7, 0) ]
      [] OTHER -> [ tag |-> "Illegal" ]

\* the helper calls each arm of Instruction::from makes, and whether one panics
decode_arm_panics(opcode, instruction) ==
    LET dest == slice_bits_panics(11, 9)
        base == slice_bits_panics(8, 6)
        src2 == slice_bits_panics(2, 0)
        imm5 == slice_bits_panics(4, 0)
                  \/ sign_extend_panics(slice_bits(instruction, 4, 0), 5)
        off6 == slice_bits_panics(5, 0)
                  \/ sign_extend_panics(slice_bits(instruction, 5, 0), 6)
        off9 == slice_bits_panics(8, 0)
                  \/ sign_extend_panics(slice_bits(instruction, 8, 0), 9)
        off11 == slice_bits_panics(10, 0)
                  \/ sign_extend_panics(slice_bits(instruction, 10, 0), 11)
    IN  CASE opcode \in {OPCODE_ADD, OPCODE_AND} ->
                \/ is_bit_set_panics(5)
                \/ dest \/ base
                \/ IF is_bit_set(instruction, 5) THEN imm5 ELSE src2
          [] opcode = OPCODE_BR ->
                is_bit_set_panics(11) \/ is_bit_set_panics(10)
                    \/ is_bit_set_panics(9) \/ off9
          [] opcode = OPCODE_JMP -> base
          [] opcode = OPCODE_JSR ->
                \/ is_bit_set_panics(11)
                \/ IF is_bit_set(instruction, 11) THEN off11 ELSE base
          [] opcode \in {OPCODE_LD, OPCODE_LDI, OPCODE_LEA, OPCODE_ST, OPCODE_STI} ->
                dest \/ off9
          [] opcode \in {OPCODE_LDR, OPCODE_STR} -> dest \/ base \/ off6
          [] opcode = OPCODE_NOT -> dest \/ base
          [] opcode = OPCODE_TRAP -> slice_bits_panics(7, 0)
          [] OTHER -> FALSE

\* let opcode = slice_bits(instruction, 14, 12): the opcode field read one bit short
Instruction_from_opcode3(instruction) ==
    decode_arm(slice_bits(instruction, 14, 12), instruction)

\* pub fn from(instruction: u16) -> Instruction: the returned variant
Instruction_from(instruction) ==
    decode_arm(slice_bits(instruction, 15, 12), instruction)

\* Instruction::from: whether the call panics
Instruction_from_panics(instruction) ==
    \/ slice_bits_panics(15, 12)
    \/ decode_arm_panics(slice_bits(instruction, 15, 12), instruction)

----------------------------------------------------------------------------
(* src/src/lc3/mod.rs *)

REG_COUNT == 8
MEMORY_LEN == 65535

RegIndex == 0 .. (REG_COUNT - 1)

\* Machine { memory: [0; 0xFFFF], regs, pc: 0, cc_neg: 0, cc_pos: 0, cc_zero: 0 }
\* with cc_neg and cc_zero both initialised to 1
from_regs_flags_set(r) ==
    [ memory |-> [len |-> MEMORY_LEN, fill |-> 0], regs |-> r, pc |-> 0,
      cc_neg |-> 1, cc_pos |-> 0, cc_zero |-> 1 ]

\* tests::from_regs(regs)
from_regs(r) ==
    [ memory |-> [len |-> MEMORY_LEN, fill |-> 0], regs |-> r, pc |-> 0,
      cc_neg |-> 0, cc_pos |-> 0, cc_zero |-> 0 ]

\* Machine::new()
Machine_new == from_regs([i \in RegIndex |-> 0])

\* self.regs[reg as usize]: the index is bounds-checked in every build
get_reg_panics(reg) == reg \notin RegIndex
get_reg(rs, reg) == rs[reg]

set_reg_panics(reg) == reg \notin RegIndex
\* every register is written, not regs[reg] alone
set_reg_all(rs, reg, val) == [ i \in DOMAIN rs |-> val ]
set_reg(rs, reg, val) == [rs EXCEPT ![reg] = val]

\* Machine::execute: whether the call panics
execute_panics(m, instruction) ==
    /\ instruction.tag = "Add"
    /\ \/ get_reg_panics(instruction.source_1)
       \/ get_reg_panics(instruction.source_2)
       \/ /\ overflow_checks
          /\ get_reg(m.regs, instruction.source_1)
                + get_reg(m.regs, instruction.source_2) > WORD_MAX
       \/ set_reg_panics(instruction.dest)

\* Machine::execute: the Machine it leaves (only the Add arm acts, and it
\* writes regs[dest] alone)
execute(m, instruction) ==
    IF instruction.tag = "Add"
    THEN LET value == (get_reg(m.regs, instruction.source_1)
                        + get_reg(m.regs, instruction.source_2)) % WORD_MOD
         IN  [m EXCEPT !.regs = set_reg(m.regs, instruction.dest, value)]
    ELSE m

----------------------------------------------------------------------------
(* Inputs *)

\* total number of instructions one Machine is made to execute
MaxSteps == 3

\* register files a Machine starts from: Machine::new(), the test's
\* from_regs([1, 2, 0, ...]), and one whose sums overflow, are zero and negative
RegFiles ==
    { [i \in RegIndex |-> 0],
      [i \in RegIndex |-> IF i = 0 THEN 1 ELSE IF i = 1 THEN 2 ELSE 0],
      [i \in RegIndex |-> CASE i = 0 -> 65535 [] i = 1 -> 1 [] i = 2 -> 32768
                            [] i = 7 -> 32767 [] OTHER -> 0] }

\* ADD R0,R0,R1; ADD R2,R1,R1; ADD R7,R7,R2; reserved opcode 1101;
\* BRnzp +1; ADD R0,R0,#1
ProgWords == { 4097, 5185, 8130, 53248, 3585, 4129 }

\* instructions handed to execute directly: the test's Add, and Illegal
DirectInstrs ==
    { [ tag |-> "Add", dest |-> 0, source_1 |-> 0, source_2 |-> 1 ],
      [ tag |-> "Illegal" ] }

RECURSIVE SeqsUpTo(_, _)
SeqsUpTo(S, n) ==
    IF n = 0 THEN { << >> }
    ELSE LET shorter == SeqsUpTo(S, n - 1)
         IN  shorter \cup { Append(q, x) : q \in { r \in shorter : Len(r) = n - 1 }, x \in S }

AllWords == 0 .. WORD_MAX

\* words slice_bits is called on
SliceWords == { 0, 1, 32768, 65535, 43690, 21845, 4660, 61680, 255, 32769 }

\* widths sign_extend is called with: the four field widths of the decoder
\* and the full word
SignWidths == { 5, 6, 9, 11, WORD_BITS }

NoCall == [ fn |-> "none" ]
Pending == [ state |-> "pending", val |-> 0 ]
Returned(v) == [ state |-> "returned", val |-> v ]
Panicked == [ state |-> "panicked", val |-> 0 ]

MachineIs(m) ==
    /\ regs = m.regs
    /\ pc = m.pc
    /\ cc_neg = m.cc_neg
    /\ cc_pos = m.cc_pos
    /\ cc_zero = m.cc_zero
    /\ memory = m.memory

\* the Machine as a value, and the assignment of one
Machine ==
    [ memory |-> memory, regs |-> regs, pc |-> pc,
      cc_neg |-> cc_neg, cc_pos |-> cc_pos, cc_zero |-> cc_zero ]

MachineBecomes(m) ==
    /\ regs' = m.regs
    /\ pc' = m.pc
    /\ cc_neg' = m.cc_neg
    /\ cc_pos' = m.cc_pos
    /\ cc_zero' = m.cc_zero
    /\ memory' = m.memory

RunIdle ==
    /\ words = << >>
    /\ idx = 0
    /\ status = "idle"
    /\ executed = << >>
    /\ steps = 0

\* Option<u16>
NoneU16 == [ some |-> FALSE, val |-> 0 ]
\* an origin that is not recorded
SomeU16_dropped(n) == NoneU16
SomeU16(n) == [ some |-> TRUE, val |-> n ]

NoLexError == [ message |-> << >>, line |-> 0, character |-> 0 ]

\* no lex() is under way
LexIdle ==
    /\ source = << >>
    /\ lex_reader = [ offset |-> 0, char_in_line |-> 0, line |-> 0 ]
    /\ tokens = << >>
    /\ lex_state = "idle"
    /\ lex_error = NoLexError

\* no parse() is under way
NoParseError == [ what |-> "", text |-> << >> ]
ParseIdle ==
    /\ parse_reader = [ items |-> << >>, offset |-> 0, item_in_line |-> 0, line |-> 0 ]
    /\ labels = << >>
    /\ orig = NoneU16
    /\ instructions = << >>
    /\ parse_state = "idle"
    /\ parse_error = NoParseError

AsmIdle == LexIdle /\ ParseIdle

----------------------------------------------------------------------------
(* Instruction::from applied to every 16-bit word *)

InitDecode ==
    /\ overflow_checks \in BOOLEAN
    /\ call \in { [ fn |-> "from", instruction |-> w ] : w \in AllWords }
    /\ ret = Pending
    /\ MachineIs(Machine_new)
    /\ RunIdle
    /\ AsmIdle

DecodeCall ==
    /\ call.fn = "from"
    /\ ret.state = "pending"
    /\ ret' = IF Instruction_from_panics(call.instruction)
              THEN Panicked
              ELSE Returned(Instruction_from(call.instruction))
    /\ UNCHANGED << overflow_checks, call, machineVars, runVars, asmVars >>

NextDecode == DecodeCall

SpecDecode == InitDecode /\ [][NextDecode]_vars

----------------------------------------------------------------------------
(* sign_extend applied to every value of each width *)

InitSignExtend ==
    /\ overflow_checks \in BOOLEAN
    /\ call \in { [ fn |-> "sign_extend", n |-> v, size |-> w ] :
                    w \in SignWidths, v \in AllWords }
    /\ call.n < 2 ^ call.size
    /\ ret = Pending
    /\ MachineIs(Machine_new)
    /\ RunIdle
    /\ AsmIdle

SignExtendCall ==
    /\ call.fn = "sign_extend"
    /\ ret.state = "pending"
    /\ ret' = IF sign_extend_panics(call.n, call.size)
              THEN Panicked
              ELSE Returned(sign_extend(call.n, call.size))
    /\ UNCHANGED << overflow_checks, call, machineVars, runVars, asmVars >>

NextSignExtend == SignExtendCall

SpecSignExtend == InitSignExtend /\ [][NextSignExtend]_vars

----------------------------------------------------------------------------
(* slice_bits applied to every bit range *)

InitSliceBits ==
    /\ overflow_checks \in BOOLEAN
    /\ call \in { [ fn |-> "slice_bits", instruction |-> w, from |-> f, to |-> t ] :
                    w \in SliceWords, f \in 0 .. (WORD_BITS - 1), t \in 0 .. (WORD_BITS - 1) }
    /\ call.to <= call.from
    /\ ret = Pending
    /\ MachineIs(Machine_new)
    /\ RunIdle
    /\ AsmIdle

SliceBitsCall ==
    /\ call.fn = "slice_bits"
    /\ ret.state = "pending"
    /\ ret' = IF slice_bits_panics(call.from, call.to)
              THEN Panicked
              ELSE Returned(slice_bits(call.instruction, call.from, call.to))
    /\ UNCHANGED << overflow_checks, call, machineVars, runVars, asmVars >>

NextSliceBits == SliceBitsCall

SpecSliceBits == InitSliceBits /\ [][NextSliceBits]_vars

----------------------------------------------------------------------------
(* Machine::execute called once on a constructed Machine, as the tests do *)

\* every Add over the register file, and one instruction of each other kind
\* of arm
ExecInstrs ==
    { [ tag |-> "Add", dest |-> d, source_1 |-> a, source_2 |-> b ] :
        d \in RegIndex, a \in RegIndex, b \in RegIndex }
    \cup { [ tag |-> "AddImmediate", dest |-> 0, source |-> 0, value |-> 1 ],
           [ tag |-> "Not", dest |-> 0, source |-> 1 ],
           [ tag |-> "Rti" ],
           [ tag |-> "Illegal" ] }

InitExecute ==
    /\ overflow_checks \in BOOLEAN
    /\ call \in { [ fn |-> "execute", instruction |-> i ] : i \in ExecInstrs }
    /\ ret = Pending
    /\ \E r \in RegFiles : MachineIs(from_regs(r))
    /\ RunIdle
    /\ AsmIdle

ExecuteCall ==
    /\ call.fn = "execute"
    /\ ret.state = "pending"
    /\ IF execute_panics(Machine, call.instruction)
       THEN /\ ret' = Panicked
            /\ UNCHANGED machineVars
       ELSE /\ ret' = Returned(0)
            /\ MachineBecomes(execute(Machine, call.instruction))
    /\ UNCHANGED << overflow_checks, call, runVars, asmVars >>

NextExecute == ExecuteCall

SpecExecute == InitExecute /\ [][NextExecute]_vars

----------------------------------------------------------------------------
(* Machine::run called on word sequences *)

Init ==
    /\ overflow_checks \in BOOLEAN
    /\ call = NoCall
    /\ ret = Pending
    /\ \E r \in RegFiles : MachineIs(from_regs(r))
    /\ RunIdle
    /\ AsmIdle

\* pub fn run(&mut self, instructions: &[u16]): the call
RunCall ==
    /\ status \in { "idle", "halted" }
    /\ \E ws \in SeqsUpTo(ProgWords, MaxSteps - steps) :
          /\ words' = ws
          /\ idx' = 0
          /\ status' = "running"
          /\ executed' = << >>
    /\ UNCHANGED << overflow_checks, codecVars, machineVars, steps, asmVars >>

\* one turn of run's for loop: the iterator decodes the next word and
\* execute is called on the result
RunStep ==
    /\ status = "running"
    /\ idx < Len(words)
    /\ LET word == words[idx + 1]
           instruction == Instruction_from(word)
       IN  IF Instruction_from_panics(word) \/ execute_panics(Machine, instruction)
           THEN /\ status' = "panicked"
                /\ UNCHANGED << machineVars, idx, executed, steps >>
           ELSE /\ MachineBecomes(execute(Machine, instruction))
                /\ idx' = idx + 1
                /\ executed' = Append(executed, idx)
                /\ steps' = steps + 1
                /\ UNCHANGED status
    /\ UNCHANGED << overflow_checks, codecVars, words, asmVars >>

\* tests::run_instructions: execute called directly on a constructed
\* Instruction, outside any run
ExecuteDirect ==
    /\ status \in { "idle", "halted" }
    /\ steps < MaxSteps
    /\ \E instruction \in DirectInstrs :
          IF execute_panics(Machine, instruction)
          THEN /\ status' = "panicked"
               /\ UNCHANGED << machineVars, steps >>
          ELSE /\ MachineBecomes(execute(Machine, instruction))
               /\ steps' = steps + 1
               /\ UNCHANGED status
    /\ UNCHANGED << overflow_checks, codecVars, words, idx, executed, asmVars >>

\* the iterator is exhausted: run returns
RunReturn ==
    /\ status = "running"
    /\ idx = Len(words)
    /\ status' = "halted"
    /\ UNCHANGED << overflow_checks, codecVars, machineVars, words, idx, executed, steps, asmVars >>

Next == RunCall \/ RunStep \/ RunReturn \/ ExecuteDirect

Spec == Init /\ [][Next]_vars

----------------------------------------------------------------------------
(* src/src/assembler/lexer.rs                                              *)
(* A char is a one-character string, a String the sequence of its chars.   *)
(* Only ASCII is modelled.                                                 *)

\* std::usize::MAX, as far as the model's integers reach
USIZE_MAX == 2147483647

\* Option<char>::None
NONE == "<none>"

AsciiDigits == << "0", "1", "2", "3", "4", "5", "6", "7", "8", "9" >>
AsciiLower ==
    << "a", "b", "c", "d", "e", "f", "g", "h", "i", "j", "k", "l", "m",
       "n", "o", "p", "q", "r", "s", "t", "u", "v", "w", "x", "y", "z" >>
AsciiUpper ==
    << "A", "B", "C", "D", "E", "F", "G", "H", "I", "J", "K", "L", "M",
       "N", "O", "P", "Q", "R", "S", "T", "U", "V", "W", "X", "Y", "Z" >>

RangeOf(q) == { q[i] : i \in 1 .. Len(q) }
IndexOf(q, c) == CHOOSE i \in 1 .. Len(q) : q[i] = c

\* char::is_numeric, char::is_alphabetic, char::is_alphanumeric,
\* char::is_whitespace
is_numeric(c) == c \in RangeOf(AsciiDigits)
is_alphabetic(c) == c \in RangeOf(AsciiLower) \cup RangeOf(AsciiUpper)
is_alphanumeric(c) == is_alphabetic(c) \/ is_numeric(c)
is_whitespace(c) == c \in { " ", "\t", "\n", "\r" }

\* the predicates handed to skip_while and take_while
Satisfies(predicate, c) ==
    CASE predicate = "is_whitespace" -> is_whitespace(c)
      [] predicate = "not_newline" -> c # "\n"
      [] predicate = "is_alphanumeric" -> is_alphanumeric(c)
      [] predicate = "not_quote" -> c # "\""
      [] predicate = "symbol_char" -> is_alphanumeric(c) \/ c = "_"

\* char::to_digit(radix): the digit's value, or radix and more when c is no
\* digit of that radix
to_digit(c) ==
    CASE c \in RangeOf(AsciiDigits) -> IndexOf(AsciiDigits, c) - 1
      [] c \in RangeOf(AsciiLower) -> IndexOf(AsciiLower, c) + 9
      [] c \in RangeOf(AsciiUpper) -> IndexOf(AsciiUpper, c) + 9
      [] OTHER -> 36

\* u16::from_str_radix on a run of alphanumerics: digits are folded from the
\* left with checked arithmetic
RECURSIVE from_str_radix_fold(_, _, _, _)
from_str_radix_fold(digits, radix, i, acc) ==
    IF i > Len(digits) THEN [ ok |-> TRUE, val |-> acc, err |-> "" ]
    ELSE IF to_digit(digits[i]) >= radix
         THEN [ ok |-> FALSE, val |-> 0, err |-> "invalid digit found in string" ]
    ELSE IF acc * radix + to_digit(digits[i]) > WORD_MAX
         THEN [ ok |-> FALSE, val |-> 0, err |-> "number too large to fit in target type" ]
    ELSE from_str_radix_fold(digits, radix, i + 1, acc * radix + to_digit(digits[i]))

\* from_str_radix without the empty-string error: "" parses as 0
from_str_radix_lenient(digits, radix) ==
    from_str_radix_fold(digits, radix, 1, 0)

from_str_radix(digits, radix) ==
    IF Len(digits) = 0
    THEN [ ok |-> FALSE, val |-> 0, err |-> "cannot parse integer from empty string" ]
    ELSE from_str_radix_fold(digits, radix, 1, 0)

\* Token::new and its helpers (a token carries a text or a value, by kind)
Token_directive(string, offset) ==
    [ kind |-> "Directive", text |-> string, value |-> 0, offset |-> offset ]
Token_symbol(string, offset) ==
    [ kind |-> "Symbol", text |-> string, value |-> 0, offset |-> offset ]
Token_number(number, offset) ==
    [ kind |-> "Number", text |-> << >>, value |-> number, offset |-> offset ]
Token_str(string, offset) ==
    [ kind |-> "Str", text |-> string, value |-> 0, offset |-> offset ]
\* a Newline token whose offset is read after the '\n' was consumed
Token_newline_late(offset) ==
    [ kind |-> "Newline", text |-> << >>, value |-> 0, offset |-> offset + 1 ]
Token_newline(offset) ==
    [ kind |-> "Newline", text |-> << >>, value |-> 0, offset |-> offset ]
Token_comma(offset) ==
    [ kind |-> "Comma", text |-> << >>, value |-> 0, offset |-> offset ]

\* lexer.rs Reader::from
LexReader_from == [ offset |-> 0, char_in_line |-> 0, line |-> 0 ]

\* lexer.rs Reader::get, Reader::peek
LexReader_get(src, index) ==
    IF index < Len(src) THEN src[index + 1] ELSE NONE
LexReader_peek(src, r) == LexReader_get(src, r.offset)

\* lexer.rs Reader::next: the cursor it leaves (offset and char_in_line move
\* even when there is no char left)
LexReader_next(src, r) ==
    IF LexReader_peek(src, r) = "\n"
    THEN [ offset |-> r.offset + 1, char_in_line |-> 0, line |-> r.line + 1 ]
    ELSE [ offset |-> r.offset + 1, char_in_line |-> r.char_in_line + 1,
           line |-> r.line ]

\* skip_while that gives up after one char
LexReader_skip_one(src, r, predicate) == LexReader_next(src, r)

\* lexer.rs Reader::skip_while
RECURSIVE LexReader_skip_while(_, _, _)
LexReader_skip_while(src, r, predicate) ==
    IF LexReader_peek(src, r) # NONE /\ Satisfies(predicate, LexReader_peek(src, r))
    THEN LexReader_skip_while(src, LexReader_next(src, r), predicate)
    ELSE r

\* lexer.rs Reader::take_while: the cursor it leaves and the chars taken
RECURSIVE LexReader_take_while(_, _, _, _)
LexReader_take_while(src, r, predicate, chars) ==
    IF LexReader_peek(src, r) # NONE /\ Satisfies(predicate, LexReader_peek(src, r))
    THEN LexReader_take_while(src, LexReader_next(src, r), predicate,
                              Append(chars, LexReader_peek(src, r)))
    ELSE [ reader |-> r, chars |-> chars ]

\* the outcomes of lex_char: Ok(Some(token)), Ok(None), Err(LexError), a panic
LexToken(r, token) ==
    [ kind |-> "token", reader |-> r, token |-> token, error |-> NoLexError ]
LexNothing(r) ==
    [ kind |-> "nothing", reader |-> r, token |-> Token_comma(0), error |-> NoLexError ]

\* Lexer::error: character is char_in_line - 1 on usize, which panics with
\* overflow checks when char_in_line is 0 and wraps to usize::MAX without
Lexer_error(r, message) ==
    IF r.char_in_line = 0 /\ overflow_checks
    THEN [ kind |-> "panic", reader |-> r, token |-> Token_comma(0), error |-> NoLexError ]
    ELSE [ kind |-> "err", reader |-> r, token |-> Token_comma(0),
           error |-> [ message |-> message,
                       line |-> r.line,
                       character |-> IF r.char_in_line = 0 THEN USIZE_MAX
                                     ELSE r.char_in_line - 1 ] ]

\* fn flip_sign_twos_complement(n) = !(n - 1): n - 1 panics with overflow
\* checks when n is 0 and wraps without
flip_sign_twos_complement_panics(n) == overflow_checks /\ n = 0
flip_sign_twos_complement(n) == BitXor(WORD_MAX, (n - 1) % WORD_MOD)

\* Lexer::lex_decimal, called with the cursor r after the optional '#'
lex_decimal(src, r, offset) ==
    LET negative == LexReader_peek(src, r) = "-"
        r1 == IF negative THEN LexReader_next(src, r) ELSE r
        dec == LexReader_take_while(src, r1, "is_alphanumeric", << >>)
        num == from_str_radix(dec.chars, 10)
    IN  IF ~num.ok
        THEN Lexer_error(dec.reader,
                 [ what |-> "invalid decimal literal", text |-> dec.chars, cause |-> num.err ])
        ELSE IF negative /\ flip_sign_twos_complement_panics(num.val)
        THEN [ kind |-> "panic", reader |-> dec.reader, token |-> Token_comma(0),
               error |-> NoLexError ]
        ELSE LexToken(dec.reader,
                 Token_number(IF negative THEN flip_sign_twos_complement(num.val)
                              ELSE num.val, offset))

\* a lex_char that tries the symbol rule first (and passes over every char
\* that opens no symbol)
lex_char_symbol_first(src, r, c) ==
    IF is_alphabetic(c)
    THEN LET symbol == LexReader_take_while(src, r, "symbol_char", << >>)
         IN  LexToken(symbol.reader, Token_symbol(symbol.chars, r.offset))
    ELSE LexNothing(LexReader_next(src, r))

\* Lexer::lex_char, called with the cursor r on the char c
lex_char(src, r, c) ==
    IF c = "\n"
    THEN LexToken(LexReader_next(src, r), Token_newline(r.offset))
    ELSE IF is_whitespace(c)
    THEN LexNothing(LexReader_skip_while(src, r, "is_whitespace"))
    ELSE IF c = ";"
    THEN LexNothing(LexReader_skip_while(src, r, "not_newline"))
    ELSE IF c = "x"
    THEN LET hex == LexReader_take_while(src, LexReader_next(src, r),
                                         "is_alphanumeric", << >>)
             num == from_str_radix(hex.chars, 16)
         IN  IF num.ok
             THEN LexToken(hex.reader, Token_number(num.val, r.offset))
             ELSE Lexer_error(hex.reader,
                      [ what |-> "invalid hex literal", text |-> << "x" >> \o hex.chars,
                        cause |-> num.err ])
    ELSE IF c = "#"
    THEN lex_decimal(src, LexReader_next(src, r), r.offset)
    ELSE IF is_numeric(c) \/ c = "-"
    THEN lex_decimal(src, r, r.offset)
    ELSE IF c = ","
    THEN LexToken(LexReader_next(src, r), Token_comma(r.offset))
    ELSE IF c = "."
    THEN LET directive == LexReader_take_while(src, LexReader_next(src, r),
                                               "is_alphanumeric", << >>)
         IN  LexToken(directive.reader, Token_directive(directive.chars, r.offset))
    ELSE IF c = "\""
    THEN LET string == LexReader_take_while(src, LexReader_next(src, r),
                                            "not_quote", << >>)
         IN  LexToken(LexReader_next(src, string.reader),
                      Token_str(string.chars, r.offset))
    ELSE IF is_alphabetic(c)
    THEN LET symbol == LexReader_take_while(src, r, "symbol_char", << >>)
         IN  LexToken(symbol.reader, Token_symbol(symbol.chars, r.offset))
    ELSE Lexer_error(r, [ what |-> "unexpected char", text |-> << c >>, cause |-> "" ])

\* Lexer::lex run to its end from cursor r with toks pushed: the Result
\* (Err drops the tokens pushed so far)
RECURSIVE Lexer_lex(_, _, _)
Lexer_lex(src, r, toks) ==
    IF LexReader_peek(src, r) = NONE
    THEN [ state |-> "ok", tokens |-> toks, error |-> NoLexError ]
    ELSE LET out == lex_char(src, r, LexReader_peek(src, r))
         IN  CASE out.kind = "token" -> Lexer_lex(src, out.reader, Append(toks, out.token))
               [] out.kind = "nothing" -> Lexer_lex(src, out.reader, toks)
               [] out.kind = "err" -> [ state |-> "err", tokens |-> << >>, error |-> out.error ]
               [] OTHER -> [ state |-> "panicked", tokens |-> << >>, error |-> NoLexError ]

\* pub fn lex(source)
lex(src) == Lexer_lex(src, LexReader_from, << >>)

----------------------------------------------------------------------------
(* lex() called on every short text over an alphabet of the lexer's chars *)

\* longest text handed to lex()
MaxSrcLen == 3

\* newline, blank, comment, the literal prefixes, sign, comma, directive dot,
\* quote, a decimal digit, a letter that is no hex digit, and a char no rule
\* takes
LexAlphabet == { "\n", " ", ";", "x", "#", "-", ",", ".", "\"", "1", "G", "@" }

InitLex ==
    /\ overflow_checks \in BOOLEAN
    /\ call = NoCall
    /\ ret = Pending
    /\ MachineIs(Machine_new)
    /\ RunIdle
    /\ ParseIdle
    /\ source \in SeqsUpTo(LexAlphabet, MaxSrcLen)
    /\ lex_reader = LexReader_from
    /\ tokens = << >>
    /\ lex_state = "lexing"
    /\ lex_error = NoLexError

\* one turn of Lexer::lex's loop with a char under the cursor: lex_char
LexChar ==
    /\ lex_state = "lexing"
    /\ LexReader_peek(source, lex_reader) # NONE
    /\ LET out == lex_char(source, lex_reader, LexReader_peek(source, lex_reader))
       IN  /\ lex_reader' = out.reader
           /\ tokens' = CASE out.kind = "token" -> Append(tokens, out.token)
                          [] out.kind = "nothing" -> tokens
                          [] OTHER -> << >>
           /\ lex_state' = CASE out.kind = "err" -> "err"
                             [] out.kind = "panic" -> "panicked"
                             [] OTHER -> "lexing"
           /\ lex_error' = out.error
    /\ UNCHANGED << overflow_checks, codecVars, machineVars, runVars, source, parseVars >>

\* the turn with no char left: lex returns Ok(tokens)
LexEnd ==
    /\ lex_state = "lexing"
    /\ LexReader_peek(source, lex_reader) = NONE
    /\ lex_state' = "ok"
    /\ UNCHANGED << overflow_checks, codecVars, machineVars, runVars, source,
                    lex_reader, tokens, lex_error, parseVars >>

NextLex == LexChar \/ LexEnd

SpecLex == InitLex /\ [][NextLex]_vars

----------------------------------------------------------------------------
(* lex() called on "x" followed by every short run of digits and letters *)

\* longest run after the 'x'
MaxHexDigits == 5

\* decimal digits, a lower-case and an upper-case hex digit, and a letter
\* that is no hex digit
HexRunChars == { "0", "1", "9", "a", "F", "G" }

InitLexHex ==
    /\ overflow_checks \in BOOLEAN
    /\ call = NoCall
    /\ ret = Pending
    /\ MachineIs(Machine_new)
    /\ RunIdle
    /\ ParseIdle
    /\ source \in { << "x" >> \o run : run \in SeqsUpTo(HexRunChars, MaxHexDigits) }
    /\ lex_reader = LexReader_from
    /\ tokens = << >>
    /\ lex_state = "lexing"
    /\ lex_error = NoLexError

SpecLexHex == InitLexHex /\ [][NextLex]_vars

----------------------------------------------------------------------------
(* lex() called on decimal literals, with and without '#' and '-' *)

\* the small magnitudes are 0 .. MaxSmallMagnitude
MaxSmallMagnitude == 40

\* the small magnitudes and the ends of the signed and unsigned ranges
DecimalMagnitudes ==
    (0 .. MaxSmallMagnitude) \cup { 32767, 32768, 65534, WORD_MAX }

\* n.to_string()
RECURSIVE DecimalText(_)
DecimalText(n) ==
    IF n < 10 THEN << AsciiDigits[n + 1] >>
    ELSE Append(DecimalText(n \div 10), AsciiDigits[(n % 10) + 1])

InitLexDecimal ==
    /\ overflow_checks \in BOOLEAN
    /\ call = NoCall
    /\ ret = Pending
    /\ MachineIs(Machine_new)
    /\ RunIdle
    /\ ParseIdle
    /\ \E prefix \in { << >>, << "#" >> }, sign \in { << >>, << "-" >> },
          n \in DecimalMagnitudes :
           source = prefix \o sign \o DecimalText(n)
    /\ lex_reader = LexReader_from
    /\ tokens = << >>
    /\ lex_state = "lexing"
    /\ lex_error = NoLexError

SpecLexDecimal == InitLexDecimal /\ [][NextLex]_vars

----------------------------------------------------------------------------
(* src/src/assembler/reader.rs and src/src/assembler/parser.rs              *)

\* Option<Token>::None
NoToken == [ kind |-> "None", text |-> << >>, value |-> 0, offset |-> 0 ]

\* Reader::from(items, is_newline), with is_newline the closure Parser::new
\* passes
Reader_from(items) ==
    [ items |-> items, offset |-> 0, item_in_line |-> 0, line |-> 0 ]
Reader_is_newline(t) == t.kind = "Newline"

\* a reset that rewinds the offset only
Reader_reset_offset(r) == [ r EXCEPT !.offset = 0 ]

\* Reader::reset
Reader_reset(r) == [ r EXCEPT !.offset = 0, !.item_in_line = 0, !.line = 0 ]

\* Reader::get, Reader::peek
Reader_get(r, index) ==
    IF index < Len(r.items) THEN r.items[index + 1] ELSE NoToken
Reader_peek(r) == Reader_get(r, r.offset)

\* Reader::next: the reader it leaves (unmoved when there is no item)
Reader_next(r) ==
    IF Reader_peek(r) = NoToken THEN r
    ELSE IF Reader_is_newline(Reader_peek(r))
    THEN [ r EXCEPT !.line = r.line + 1, !.item_in_line = 0, !.offset = r.offset + 1 ]
    ELSE [ r EXCEPT !.item_in_line = r.item_in_line + 1, !.offset = r.offset + 1 ]

\* the predicates handed to the generic Reader's skip_while and take_while
TokenSatisfies(predicate, t) ==
    CASE predicate = "is_newline" -> t.kind = "Newline"
      [] predicate = "not_newline" -> t.kind # "Newline"
      [] predicate = "is_symbol" -> t.kind = "Symbol"

\* Reader::skip_while
RECURSIVE Reader_skip_while(_, _)
Reader_skip_while(r, predicate) ==
    IF Reader_peek(r) # NoToken /\ TokenSatisfies(predicate, Reader_peek(r))
    THEN Reader_skip_while(Reader_next(r), predicate)
    ELSE r

\* Reader::take_while: the reader it leaves and the items taken
RECURSIVE Reader_take_while(_, _, _)
Reader_take_while(r, predicate, taken) ==
    IF Reader_peek(r) # NoToken /\ TokenSatisfies(predicate, Reader_peek(r))
    THEN Reader_take_while(Reader_next(r), predicate, Append(taken, Reader_peek(r)))
    ELSE [ reader |-> r, items |-> taken ]

\* c as u16, for the ASCII chars
char_as_u16(c) ==
    CASE c \in RangeOf(AsciiDigits) -> 47 + IndexOf(AsciiDigits, c)
      [] c \in RangeOf(AsciiUpper) -> 64 + IndexOf(AsciiUpper, c)
      [] c \in RangeOf(AsciiLower) -> 96 + IndexOf(AsciiLower, c)
      [] c = "\n" -> 10
      [] c = " " -> 32
      [] c = "!" -> 33
      [] c = "#" -> 35
      [] c = "," -> 44
      [] c = "-" -> 45
      [] c = "." -> 46
      [] c = ";" -> 59
      [] c = "@" -> 64
      [] c = "_" -> 95

\* a to_lowercase that leaves the string as it is
to_lowercase_not(string) == string

\* str::to_lowercase, for the ASCII chars
to_lowercase(string) ==
    [ i \in 1 .. Len(string) |->
        IF string[i] \in RangeOf(AsciiUpper)
        THEN AsciiLower[IndexOf(AsciiUpper, string[i])]
        ELSE string[i] ]

\* Parser::new
Parser_new(toks) ==
    [ reader |-> Reader_from(toks), labels |-> << >>, orig |-> NoneU16,
      instructions |-> << >> ]

\* HashMap::insert
HashMap_insert(map, key, value) ==
    [ k \in DOMAIN map \cup { key } |-> IF k = key THEN value ELSE map[k] ]

\* one turn of find_labels' loop on a token: the parser it leaves
find_labels_turn(p) ==
    LET token == Reader_peek(p.reader)
        reader == Reader_next(p.reader)
    IN  IF token.kind = "Symbol" /\ reader.item_in_line = 0
        THEN [ p EXCEPT !.reader = reader,
                        !.labels = HashMap_insert(p.labels, token.text, reader.line) ]
        ELSE [ p EXCEPT !.reader = reader ]

\* the results of the parser's fallible steps
ParseOk(p, value) ==
    [ ok |-> TRUE, parser |-> p, value |-> value, error |-> NoParseError ]
ParseErr(p, what, text) ==
    [ ok |-> FALSE, parser |-> p, value |-> << >>,
      error |-> [ what |-> what, text |-> text ] ]

\* expect_number that reports the end of input as a wrong operand
expect_number_no_end(p) ==
    LET token == Reader_peek(p.reader)
        advanced == [ p EXCEPT !.reader = Reader_next(p.reader) ]
    IN  IF token.kind = "Number" THEN ParseOk(advanced, << token.value >>)
        ELSE ParseErr(advanced, "expected a number", << >>)

\* Parser::expect_number: value is << num >>
expect_number(p) ==
    LET token == Reader_peek(p.reader)
        advanced == [ p EXCEPT !.reader = Reader_next(p.reader) ]
    IN  IF token.kind = "Number" THEN ParseOk(advanced, << token.value >>)
        ELSE IF token # NoToken THEN ParseErr(advanced, "expected a number", << >>)
        ELSE ParseErr(advanced, "unexpected end of input", << >>)

\* Parser::expect_string: value is the string
expect_string(p) ==
    LET token == Reader_peek(p.reader)
        advanced == [ p EXCEPT !.reader = Reader_next(p.reader) ]
    IN  IF token.kind = "Str" THEN ParseOk(advanced, token.text)
        ELSE IF token # NoToken THEN ParseErr(advanced, "expected a string literal", << >>)
        ELSE ParseErr(advanced, "unexpected end of input", << >>)

\* the "stringz" arm without the null terminator
stringz_words_unterminated(string) ==
    [ i \in 1 .. Len(string) |-> char_as_u16(string[i]) ]

\* the "stringz" arm's null_terminated_chars
stringz_words(string) ==
    Append([ i \in 1 .. Len(string) |-> char_as_u16(string[i]) ], 0)

\* the "blkw" arm with one slot too many
blkw_reserved_extra(num_reserved_slots) ==
    [ i \in 1 .. num_reserved_slots + 1 |-> 0 ]

\* the "blkw" arm's vec![0; num_reserved_slots as usize]
blkw_reserved(num_reserved_slots) ==
    [ i \in 1 .. num_reserved_slots |-> 0 ]

\* an "end" arm that leaves the reader where it is
Reader_seek_nowhere(r) == r

\* the "end" arm's self.reader.offset = std::usize::MAX
Reader_seek_end(r) == [ r EXCEPT !.offset = USIZE_MAX ]

\* Parser::parse_directive
parse_directive(p, directive) ==
    LET name == to_lowercase(directive)
    IN  CASE name = << "f", "i", "l", "l" >> ->
                LET num == expect_number(p)
                IN  IF ~num.ok THEN num
                    ELSE ParseOk([ num.parser EXCEPT
                             !.instructions = Append(@, num.value[1]) ], << >>)
          [] name = << "s", "t", "r", "i", "n", "g", "z" >> ->
                LET string == expect_string(p)
                IN  IF ~string.ok THEN string
                    ELSE ParseOk([ string.parser EXCEPT
                             !.instructions = @ \o stringz_words(string.value) ], << >>)
          [] name = << "b", "l", "k", "w" >> ->
                LET num_reserved_slots == expect_number(p)
                IN  IF ~num_reserved_slots.ok THEN num_reserved_slots
                    ELSE ParseOk([ num_reserved_slots.parser EXCEPT
                             !.instructions =
                                 @ \o blkw_reserved(num_reserved_slots.value[1]) ],
                             << >>)
          [] name = << "o", "r", "i", "g" >> ->
                LET num == expect_number(p)
                IN  IF ~num.ok THEN num
                    ELSE ParseOk([ num.parser EXCEPT !.orig = SomeU16(num.value[1]) ],
                                 << >>)
          [] name = << "e", "n", "d" >> ->
                ParseOk([ p EXCEPT !.reader = Reader_seek_end(@) ], << >>)
          [] OTHER -> ParseErr(p, "unrecognized directive", directive)

\* the Parser as the state holds it
ParserNow ==
    [ reader |-> parse_reader, labels |-> labels, orig |-> orig,
      instructions |-> instructions ]
ParserBecomes(p) ==
    /\ parse_reader' = p.reader
    /\ labels' = p.labels
    /\ orig' = p.orig
    /\ instructions' = p.instructions

----------------------------------------------------------------------------
(* parse() called on every short token vector over an alphabet of tokens *)

\* longest token vector handed to parse()
MaxTokens == 3

\* every directive (one in upper case, one unknown), a symbol, numbers,
\* strings, comma and newline; offsets are 0 as in the parser's tests
ParseAlphabet ==
    { Token_directive(<< "f", "i", "l", "l" >>, 0),
      Token_directive(<< "S", "T", "R", "I", "N", "G", "Z" >>, 0),
      Token_directive(<< "b", "l", "k", "w" >>, 0),
      Token_directive(<< "o", "r", "i", "g" >>, 0),
      Token_directive(<< "e", "n", "d" >>, 0),
      Token_directive(<< "b", "a", "d" >>, 0),
      Token_symbol(<< "A" >>, 0),
      Token_number(2, 0),
      Token_str(<< >>, 0),
      Token_str(<< "h", "i", "!" >>, 0),
      Token_comma(0),
      Token_newline(0) }

InitParse ==
    /\ overflow_checks \in BOOLEAN
    /\ call = NoCall
    /\ ret = Pending
    /\ MachineIs(Machine_new)
    /\ RunIdle
    /\ LexIdle
    /\ \E toks \in SeqsUpTo(ParseAlphabet, MaxTokens) :
           /\ parse_reader = Parser_new(toks).reader
           /\ labels = Parser_new(toks).labels
           /\ orig = Parser_new(toks).orig
           /\ instructions = Parser_new(toks).instructions
    /\ parse_state = "find_labels"
    /\ parse_error = NoParseError

\* one turn of find_labels' loop with a token left
FindLabelsTurn ==
    /\ parse_state = "find_labels"
    /\ Reader_peek(parse_reader) # NoToken
    /\ ParserBecomes(find_labels_turn(ParserNow))
    /\ UNCHANGED << overflow_checks, codecVars, machineVars, runVars, lexVars,
                    parse_state, parse_error >>

\* find_labels' loop ends: the reader is reset and parse's loop begins
FindLabelsEnd ==
    /\ parse_state = "find_labels"
    /\ Reader_peek(parse_reader) = NoToken
    /\ parse_reader' = Reader_reset(parse_reader)
    /\ parse_state' = "parsing"
    /\ UNCHANGED << overflow_checks, codecVars, machineVars, runVars, lexVars,
                    labels, orig, instructions, parse_error >>

\* one turn of parse's loop with a token left: a directive is parsed whole,
\* every other token is passed over
ParseToken ==
    /\ parse_state = "parsing"
    /\ Reader_peek(parse_reader) # NoToken
    /\ LET token == Reader_peek(parse_reader)
           taken == [ ParserNow EXCEPT !.reader = Reader_next(parse_reader) ]
           done == IF token.kind = "Directive"
                   THEN parse_directive(taken, token.text)
                   ELSE ParseOk(taken, << >>)
       IN  /\ ParserBecomes(done.parser)
           /\ parse_state' = IF done.ok THEN "parsing" ELSE "err"
           /\ parse_error' = done.error
    /\ UNCHANGED << overflow_checks, codecVars, machineVars, runVars, lexVars >>

\* parse's loop ends: Ok(self.instructions.clone())
ParseReturn ==
    /\ parse_state = "parsing"
    /\ Reader_peek(parse_reader) = NoToken
    /\ parse_state' = "ok"
    /\ UNCHANGED << overflow_checks, codecVars, machineVars, runVars, lexVars,
                    parse_reader, labels, orig, instructions, parse_error >>

NextParse == FindLabelsTurn \/ FindLabelsEnd \/ ParseToken \/ ParseReturn

SpecParse == InitParse /\ [][NextParse]_vars

----------------------------------------------------------------------------
(* parse() called on a .BLKW statement of every small count *)

\* the small counts are 0 .. MaxBlkwCount
MaxBlkwCount == 10

\* the small counts and the largest u16
BlkwCounts == (0 .. MaxBlkwCount) \cup { WORD_MAX }

InitParseBlkw ==
    /\ overflow_checks \in BOOLEAN
    /\ call = NoCall
    /\ ret = Pending
    /\ MachineIs(Machine_new)
    /\ RunIdle
    /\ LexIdle
    /\ \E before \in { << >>, << Token_directive(<< "f", "i", "l", "l" >>, 0),
                                 Token_number(7, 0) >> },
          name \in { << "b", "l", "k", "w" >>, << "B", "L", "K", "W" >> },
          n \in BlkwCounts :
           LET toks == before \o << Token_directive(name, 0), Token_number(n, 0) >>
           IN  /\ parse_reader = Parser_new(toks).reader
               /\ labels = Parser_new(toks).labels
               /\ orig = Parser_new(toks).orig
               /\ instructions = Parser_new(toks).instructions
    /\ parse_state = "find_labels"
    /\ parse_error = NoParseError

SpecParseBlkw == InitParseBlkw /\ [][NextParse]_vars

----------------------------------------------------------------------------
(* parse() called on every short program made of whole statements *)

\* most statements in a program handed to parse()
MaxStatements == 3

\* every directive with a fitting operand, .ORIG with two addresses, an
\* unknown directive and a directive with a wrong operand, a newline, a bare
\* label, and three instructions (no operand, register operands in lower
\* case, a label operand)
Statements ==
    { << Token_directive(<< "f", "i", "l", "l" >>, 0), Token_number(7, 0) >>,
      << Token_directive(<< "b", "l", "k", "w" >>, 0), Token_number(2, 0) >>,
      << Token_directive(<< "s", "t", "r", "i", "n", "g", "z" >>, 0),
         Token_str(<< "h", "i", "!" >>, 0) >>,
      << Token_directive(<< "o", "r", "i", "g" >>, 0), Token_number(12288, 0) >>,
      << Token_directive(<< "O", "R", "I", "G" >>, 0), Token_number(2, 0) >>,
      << Token_directive(<< "E", "N", "D" >>, 0) >>,
      << Token_directive(<< "b", "a", "d" >>, 0) >>,
      << Token_directive(<< "f", "i", "l", "l" >>, 0), Token_comma(0) >>,
      << Token_newline(0) >>,
      << Token_symbol(<< "A" >>, 0) >>,
      << Token_symbol(<< "R", "T", "I" >>, 0) >>,
      << Token_symbol(<< "a", "d", "d" >>, 0), Token_symbol(<< "R", "1" >>, 0),
         Token_comma(0), Token_symbol(<< "R", "2" >>, 0), Token_comma(0),
         Token_symbol(<< "R", "3" >>, 0) >>,
      << Token_symbol(<< "L", "D" >>, 0), Token_symbol(<< "R", "0" >>, 0),
         Token_comma(0), Token_symbol(<< "A" >>, 0) >> }

\* the token vector of a sequence of statements
RECURSIVE Flatten(_)
Flatten(statements) ==
    IF Len(statements) = 0 THEN << >>
    ELSE Head(statements) \o Flatten(Tail(statements))

InitParseProgram ==
    /\ overflow_checks \in BOOLEAN
    /\ call = NoCall
    /\ ret = Pending
    /\ MachineIs(Machine_new)
    /\ RunIdle
    /\ LexIdle
    /\ \E program \in SeqsUpTo(Statements, MaxStatements) :
           LET toks == Flatten(program)
           IN  /\ parse_reader = Parser_new(toks).reader
               /\ labels = Parser_new(toks).labels
               /\ orig = Parser_new(toks).orig
               /\ instructions = Parser_new(toks).instructions
    /\ parse_state = "find_labels"
    /\ parse_error = NoParseError

SpecParseProgram == InitParseProgram /\ [][NextParse]_vars

----------------------------------------------------------------------------
(* The two Readers driven directly: any sequence of peek, next, skip_while, *)
(* take_while and reset on the lexer's char Reader over `source` and on the *)
(* generic Reader over `parse_reader.items`                                 *)

\* most items a Reader is built over
MaxReaderItems == 3

\* most calls of the char Reader's next() made past the end
MaxOverrun == 2

\* an item is a line boundary, a blank or another item: '\n', ' ' and 'a'
\* for the char Reader; Newline, Comma and Symbol for the generic one
ReaderShapes == SeqsUpTo({ "boundary", "blank", "item" }, MaxReaderItems)
ShapeChars(shape) ==
    [ i \in 1 .. Len(shape) |->
        CASE shape[i] = "boundary" -> "\n"
          [] shape[i] = "blank" -> " "
          [] OTHER -> "a" ]
ShapeTokens(shape) ==
    [ i \in 1 .. Len(shape) |->
        CASE shape[i] = "boundary" -> Token_newline(0)
          [] shape[i] = "blank" -> Token_comma(0)
          [] OTHER -> Token_symbol(<< "a" >>, 0) ]

CharPredicates == { "is_whitespace", "not_newline", "is_alphanumeric" }
TokenPredicates == { "is_newline", "not_newline", "is_symbol" }

InitReaders ==
    /\ overflow_checks \in BOOLEAN
    /\ call = NoCall
    /\ ret = Pending
    /\ MachineIs(Machine_new)
    /\ RunIdle
    /\ \E shape \in ReaderShapes :
           /\ source = ShapeChars(shape)
           /\ parse_reader = Reader_from(ShapeTokens(shape))
    /\ lex_reader = LexReader_from
    /\ tokens = << >>
    /\ lex_state = "idle"
    /\ lex_error = NoLexError
    /\ labels = << >>
    /\ orig = NoneU16
    /\ instructions = << >>
    /\ parse_state = "idle"
    /\ parse_error = NoParseError

ReadersFrame ==
    UNCHANGED << overflow_checks, machineVars, runVars, source, tokens, lex_state,
                 lex_error, labels, orig, instructions, parse_state, parse_error >>

\* lexer.rs Reader::peek
CharPeek ==
    /\ lex_state = "idle" /\ parse_state = "idle" /\ status = "idle"
    /\ call' = [ fn |-> "LexReader_peek", predicate |-> "" ]
    /\ ret' = Returned(LexReader_peek(source, lex_reader))
    /\ UNCHANGED << lex_reader, parse_reader >>
    /\ ReadersFrame

\* lexer.rs Reader::next
CharNext ==
    /\ lex_state = "idle" /\ parse_state = "idle" /\ status = "idle"
    /\ lex_reader.offset < Len(source) + MaxOverrun
    /\ call' = [ fn |-> "LexReader_next", predicate |-> "" ]
    /\ ret' = Returned(LexReader_peek(source, lex_reader))
    /\ lex_reader' = LexReader_next(source, lex_reader)
    /\ UNCHANGED parse_reader
    /\ ReadersFrame

\* lexer.rs Reader::skip_while
CharSkipWhile ==
    /\ lex_state = "idle" /\ parse_state = "idle" /\ status = "idle"
    /\ \E predicate \in CharPredicates :
           /\ call' = [ fn |-> "LexReader_skip_while", predicate |-> predicate ]
           /\ lex_reader' = LexReader_skip_while(source, lex_reader, predicate)
    /\ ret' = Returned(0)
    /\ UNCHANGED parse_reader
    /\ ReadersFrame

\* lexer.rs Reader::take_while
CharTakeWhile ==
    /\ lex_state = "idle" /\ parse_state = "idle" /\ status = "idle"
    /\ \E predicate \in CharPredicates :
           LET taken == LexReader_take_while(source, lex_reader, predicate, << >>)
           IN  /\ call' = [ fn |-> "LexReader_take_while", predicate |-> predicate ]
               /\ lex_reader' = taken.reader
               /\ ret' = Returned(taken.chars)
    /\ UNCHANGED parse_reader
    /\ ReadersFrame

\* reader.rs Reader::peek
ItemPeek ==
    /\ lex_state = "idle" /\ parse_state = "idle" /\ status = "idle"
    /\ call' = [ fn |-> "Reader_peek", predicate |-> "" ]
    /\ ret' = Returned(Reader_peek(parse_reader))
    /\ UNCHANGED << lex_reader, parse_reader >>
    /\ ReadersFrame

\* reader.rs Reader::next
ItemNext ==
    /\ lex_state = "idle" /\ parse_state = "idle" /\ status = "idle"
    /\ call' = [ fn |-> "Reader_next", predicate |-> "" ]
    /\ ret' = Returned(Reader_peek(parse_reader))
    /\ parse_reader' = Reader_next(parse_reader)
    /\ UNCHANGED lex_reader
    /\ ReadersFrame

\* reader.rs Reader::skip_while
ItemSkipWhile ==
    /\ lex_state = "idle" /\ parse_state = "idle" /\ status = "idle"
    /\ \E predicate \in TokenPredicates :
           /\ call' = [ fn |-> "Reader_skip_while", predicate |-> predicate ]
           /\ parse_reader' = Reader_skip_while(parse_reader, predicate)
    /\ ret' = Returned(0)
    /\ UNCHANGED lex_reader
    /\ ReadersFrame

\* reader.rs Reader::take_while
ItemTakeWhile ==
    /\ lex_state = "idle" /\ parse_state = "idle" /\ status = "idle"
    /\ \E predicate \in TokenPredicates :
           LET taken == Reader_take_while(parse_reader, predicate, << >>)
           IN  /\ call' = [ fn |-> "Reader_take_while", predicate |-> predicate ]
               /\ parse_reader' = taken.reader
               /\ ret' = Returned(taken.items)
    /\ UNCHANGED lex_reader
    /\ ReadersFrame

\* reader.rs Reader::reset
ItemReset ==
    /\ lex_state = "idle" /\ parse_state = "idle" /\ status = "idle"
    /\ call' = [ fn |-> "Reader_reset", predicate |-> "" ]
    /\ ret' = Returned(0)
    /\ parse_reader' = Reader_reset(parse_reader)
    /\ UNCHANGED lex_reader
    /\ ReadersFrame

NextReaders ==
    \/ CharPeek \/ CharNext \/ CharSkipWhile \/ CharTakeWhile
    \/ ItemPeek \/ ItemNext \/ ItemSkipWhile \/ ItemTakeWhile \/ ItemReset

SpecReaders == InitReaders /\ [][NextReaders]_vars

----------------------------------------------------------------------------
(* Reference arithmetic the claims are stated in *)

\* bits hi..lo of w, right-aligned
RefField(w, hi, lo) == (w \div (2 ^ lo)) % (2 ^ (hi - lo + 1))

\* the 16-bit two's-complement widening of the width-bit value x
RefWiden(x, width) ==
    IF x >= 2 ^ (width - 1) THEN x + (65536 - 2 ^ width) ELSE x

\* the opcodes of the decode table
TableOpcodes == { 1, 5, 0, 12, 4, 2, 10, 6, 14, 9, 8, 3, 11, 7, 15 }

DecodeReturned == call.fn = "from" /\ ret.state = "returned"

----------------------------------------------------------------------------
(* Claims *)

\* C1: for every 16-bit word w, Instruction::from(w) returns a variant
\* without failing, and the variant is Illegal exactly when the opcode nibble
\* (bits 15..12) is not one of the 15 opcodes of the decode table.
C1_DecodeTotal ==
    (call.fn = "from" /\ ret.state # "pending") =>
        /\ ret.state = "returned"
        /\ (ret.val.tag = "Illegal")
              <=> (call.instruction \div 4096) \notin TableOpcodes

\* C1 witness: a word decoded to Illegal
C1_Witness == DecodeReturned /\ ret.val.tag = "Illegal"

\* C2: for ADD and AND the variant is the immediate one iff bit 5 is set;
\* opcode 1100 decodes to Ret iff bits 8..6 are 0b111 and to Jmp otherwise;
\* opcode 0100 decodes to Jsr iff bit 11 is set and to JsrR otherwise.
C2_ModeDiscriminator ==
    DecodeReturned =>
        LET w == call.instruction
            opcode == w \div 4096
            tag == ret.val.tag
        IN  /\ opcode = 1 =>
                 tag = (IF RefField(w, 5, 5) = 1 THEN "AddImmediate" ELSE "Add")
            /\ opcode = 5 =>
                 tag = (IF RefField(w, 5, 5) = 1 THEN "AndImmediate" ELSE "And")
            /\ opcode = 12 =>
                 tag = (IF RefField(w, 8, 6) = 7 THEN "Ret" ELSE "Jmp")
            /\ opcode = 4 =>
                 tag = (IF RefField(w, 11, 11) = 1 THEN "Jsr" ELSE "JsrR")

\* C2 witness: a JMP word whose base field is 0b111 and whose other operand
\* bits are set, decoded to Ret
C2_Witness ==
    /\ DecodeReturned
    /\ call.instruction = 53247
    /\ ret.val.tag = "Ret"

\* C3: the operand fields of the decoded variant equal the reference
\* extraction from the word: dest / store source = bits 11..9, base / source /
\* source_1 = bits 8..6, source_2 = bits 2..0, the ADD/AND immediate = bits
\* 4..0 widened from 5 bits, the PC offset of BR/LD/LDI/LEA/ST/STI = bits 8..0
\* widened from 9 bits, the JSR offset = bits 10..0 widened from 11 bits, the
\* LDR/STR offset = bits 5..0 widened from 6 bits, the TRAP vector = bits 7..0.
C3_OperandFields ==
    DecodeReturned =>
        LET w == call.instruction
            v == ret.val
            tag == v.tag
        IN  /\ tag \in { "Add", "And" } =>
                 /\ v.dest = RefField(w, 11, 9)
                 /\ v.source_1 = RefField(w, 8, 6)
                 /\ v.source_2 = RefField(w, 2, 0)
            /\ tag \in { "AddImmediate", "AndImmediate" } =>
                 /\ v.dest = RefField(w, 11, 9)
                 /\ v.source = RefField(w, 8, 6)
                 /\ v.value = RefWiden(RefField(w, 4, 0), 5)
            /\ tag = "Br" => v.pc_offset = RefWiden(RefField(w, 8, 0), 9)
            /\ tag \in { "Jmp", "JsrR" } => v.base = RefField(w, 8, 6)
            /\ tag = "Jsr" => v.pc_offset = RefWiden(RefField(w, 10, 0), 11)
            /\ tag \in { "Ld", "LdI", "Lea" } =>
                 /\ v.dest = RefField(w, 11, 9)
                 /\ v.pc_offset = RefWiden(RefField(w, 8, 0), 9)
            /\ tag = "LdR" =>
                 /\ v.dest = RefField(w, 11, 9)
                 /\ v.base = RefField(w, 8, 6)
                 /\ v.offset = RefWiden(RefField(w, 5, 0), 6)
            /\ tag = "Not" =>
                 /\ v.dest = RefField(w, 11, 9)
                 /\ v.source = RefField(w, 8, 6)
            /\ tag \in { "St", "StI" } =>
                 /\ v.source = RefField(w, 11, 9)
                 /\ v.pc_offset = RefWiden(RefField(w, 8, 0), 9)
            /\ tag = "StR" =>
                 /\ v.source = RefField(w, 11, 9)
                 /\ v.base = RefField(w, 8, 6)
                 /\ v.offset = RefWiden(RefField(w, 5, 0), 6)
            /\ tag = "Trap" => v.vec = RefField(w, 7, 0)

\* C3 witness: the test's LDR word 0b0110_010_010_100000, decoded with its
\* negative 6-bit offset widened to 0xFFE0
C3_Witness ==
    /\ DecodeReturned
    /\ call.instruction = 25760
    /\ ret.val = [ tag |-> "LdR", dest |-> 2, base |-> 2, offset |-> 65504 ]

\* C4: for each width w in {5, 6, 9, 11} and every v < 2^w, sign_extend(v, w)
\* returns v when bit w-1 of v is clear and v + (2^16 - 2^w) when it is set.
C4_SignExtendWidths ==
    (call.fn = "sign_extend" /\ call.size \in { 5, 6, 9, 11 }
        /\ ret.state # "pending") =>
        /\ ret.state = "returned"
        /\ ret.val = IF RefField(call.n, call.size - 1, call.size - 1) = 1
                     THEN call.n + (65536 - 2 ^ call.size)
                     ELSE call.n

\* C4 witness: the test's sign_extend(0b1_1000_0001, 9) = 0b1111_1111_1000_0001
C4_Witness ==
    /\ call.fn = "sign_extend"
    /\ call.size = 9
    /\ call.n = 385
    /\ ret = Returned(65409)

\* C5: for every 16-bit value v, sign_extend(v, 16) returns v and completes
\* without an arithmetic fault.
C5_SignExtendFullWidth ==
    (call.fn = "sign_extend" /\ call.size = 16 /\ ret.state # "pending") =>
        ret = Returned(call.n)

\* C6: for every word and every 0 <= to <= from <= 15, slice_bits(word, from,
\* to) returns (word div 2^to) mod 2^(from - to + 1).
C6_SliceBitsRange ==
    (call.fn = "slice_bits" /\ ret.state # "pending") =>
        ret = Returned(RefField(call.instruction, call.from, call.to))

\* C7: executing Add{dest, source_1, source_2} leaves regs[dest] equal to
\* (regs[source_1] + regs[source_2]) mod 2^16 of the values held before, and
\* the execution completes without a fault.
C7_AddWrappingSum ==
    [][ (call.fn = "execute" /\ call.instruction.tag = "Add"
            /\ ret.state = "pending" /\ ret'.state # "pending") =>
          /\ ret'.state = "returned"
          /\ regs'[call.instruction.dest]
               = (regs[call.instruction.source_1]
                    + regs[call.instruction.source_2]) % 65536 ]_vars

\* C8: after executing Add, exactly one of the condition codes N, Z, P is set
\* and it matches the result written to dest: N if bit 15 is set, Z if the
\* result is 0, P otherwise.
C8_AddSetsConditionCodes ==
    (call.fn = "execute" /\ call.instruction.tag = "Add"
        /\ ret.state = "returned") =>
        LET result == regs[call.instruction.dest]
        IN  /\ (cc_neg # 0) <=> (result >= 32768)
            /\ (cc_zero # 0) <=> (result = 0)
            /\ (cc_pos # 0) <=> (result > 0 /\ result < 32768)

\* C9: in every reachable machine state at most one of cc_neg, cc_zero,
\* cc_pos is set (nonzero).
C9_AtMostOneFlag ==
    Cardinality({ f \in { "n", "z", "p" } :
                    \/ f = "n" /\ cc_neg # 0
                    \/ f = "z" /\ cc_zero # 0
                    \/ f = "p" /\ cc_pos # 0 }) <= 1

\* C9 witness: a run has returned after executing Adds that left a negative
\* result in R7
C9_Witness ==
    /\ status = "halted"
    /\ steps >= 2
    /\ regs[7] = 65535

\* C10: when run() reaches a word that decodes to Illegal the run ends in a
\* fault: the loop never moves past such a word, so it is not a no-op and no
\* later word is executed.
C10_IllegalFaults ==
    \A i \in 1 .. idx : Instruction_from(words[i]).tag # "Illegal"

\* C11: for every finite word sequence, run executes word i before word
\* i+1, each word exactly once whatever the instructions are, and then halts
\* on exhausting the sequence (a run never stops part-way: a panic inside a
\* run is a state with status "panicked" and idx < Len(words)).
C11_RunInOrderToExhaustion ==
    /\ executed = [ k \in 1 .. Len(executed) |-> k - 1 ]
    /\ status = "halted" => Len(executed) = Len(words)
    /\ ~(status = "panicked" /\ idx < Len(words))

\* C12: the machine's memory holds exactly 65536 words in every reachable
\* state, so that address 0xFFFF is a valid index.
C12_MemoryHoldsAllAddresses ==
    memory.len = 65536

\* the value of a run of digits in a radix, as a positional sum
RECURSIVE RefRadixValue(_, _)
RefRadixValue(digits, radix) ==
    IF Len(digits) = 0 THEN 0
    ELSE RefRadixValue(SubSeq(digits, 1, Len(digits) - 1), radix) * radix
         + to_digit(digits[Len(digits)])

RefValidNumber(digits, radix) ==
    /\ Len(digits) > 0
    /\ \A i \in 1 .. Len(digits) : to_digit(digits[i]) < radix
    /\ RefRadixValue(digits, radix) <= WORD_MAX

\* C13: a literal 'x' followed by hex digits of value 0..0xFFFF lexes to the
\* single Number token of that base-16 value; when the run after 'x' is no
\* valid base-16 number or exceeds 0xFFFF, lexing returns a LexError and no
\* tokens.
C13_HexLiteral ==
    LET run == Tail(source)
        valid == RefValidNumber(run, 16)
        number == << Token_number(RefRadixValue(run, 16), 0) >>
    IN  /\ lex_state # "panicked"
        /\ (lex_state = "lexing" /\ lex_reader.offset > 0) =>
               valid /\ tokens = number
        /\ lex_state = "ok" => valid /\ tokens = number
        /\ lex_state = "err" =>
               /\ ~valid
               /\ tokens = << >>
               /\ lex_error.message.what = "invalid hex literal"
               /\ lex_error.message.text = source

C13_Witness ==
    /\ lex_state = "ok"
    /\ source = << "x", "F", "F", "F", "F" >>
    /\ tokens = << Token_number(65535, 0) >>

C13_WitnessOverflow ==
    /\ lex_state = "err"
    /\ source = << "x", "1", "0", "0", "0", "0" >>

\* the literal's parts: '#' prefix present, '-' present, the digits
RefHasHash(src) == Len(src) > 0 /\ src[1] = "#"
RefUnprefixed(src) == IF RefHasHash(src) THEN Tail(src) ELSE src
RefNegative(src) == Len(RefUnprefixed(src)) > 0 /\ RefUnprefixed(src)[1] = "-"
RefMagnitudeDigits(src) ==
    IF RefNegative(src) THEN Tail(RefUnprefixed(src)) ELSE RefUnprefixed(src)

\* C14: a decimal literal with a leading '-' and magnitude n in 0..65535,
\* with or without '#', lexes to one Number token of value
\* (65536 - n) mod 65536, and lex("#-n") equals lex("#" ++ str(65536 - n))
\* for 1 <= n <= 65535.
C14_NegativeDecimal ==
    LET n == RefRadixValue(RefMagnitudeDigits(source), 10)
    IN  RefNegative(source) =>
            /\ lex_state \notin { "panicked", "err" }
            /\ lex_state = "ok" =>
                   tokens = << Token_number((WORD_MOD - n) % WORD_MOD, 0) >>
            /\ (n >= 1 /\ RefHasHash(source)) =>
                   lex(source) = lex(<< "#" >> \o DecimalText(WORD_MOD - n))

\* zero-based line and column of the char at zero-based index k of a text
RefLine(src, k) == Cardinality({ j \in 1 .. k : src[j] = "\n" })
RefColumn(src, k) ==
    Cardinality({ j \in 1 .. k : \A i \in j .. k : src[i] # "\n" })

\* C15: when a hex or decimal literal contains a character that is no valid
\* digit, lexing fails with a LexError whose line is the literal's line and
\* whose character is the column of the first invalid character of the
\* literal, wherever in the literal that character stands.
C15_InvalidLiteralColumn ==
    (lex_state = "err"
        /\ lex_error.message.what \in { "invalid hex literal", "invalid decimal literal" }) =>
        LET hex == lex_error.message.what = "invalid hex literal"
            digits == IF hex THEN Tail(lex_error.message.text)
                      ELSE lex_error.message.text
            radix == IF hex THEN 16 ELSE 10
            invalid == { i \in 1 .. Len(digits) : to_digit(digits[i]) >= radix }
            first == CHOOSE i \in invalid : \A j \in invalid : i <= j
            index == lex_reader.offset - Len(digits) + first - 1
        IN  invalid # { } =>
                /\ lex_error.line = RefLine(source, index)
                /\ lex_error.character = RefColumn(source, index)

\* a char none of the lexer's token rules takes
RefNoRule(c) ==
    /\ c # NONE
    /\ ~is_whitespace(c)
    /\ ~is_alphanumeric(c)
    /\ c \notin { ";", "#", "-", ",", ".", "\"" }

\* C16: when the next character matches none of the token rules, lexing
\* returns a LexError "unexpected char <c>" whose line and character are that
\* character's zero-based line and column, at every position including
\* column 0 of a line, and no tokens are returned.
C16_UnexpectedChar ==
    LET c == LexReader_peek(source, lex_reader)
        unexpected ==
            \/ lex_state = "err" /\ lex_error.message.what = "unexpected char"
            \/ lex_state = "panicked" /\ RefNoRule(c) /\ lex_reader.char_in_line = 0
    IN  unexpected =>
            /\ lex_state = "err"
            /\ RefNoRule(c)
            /\ lex_error.message.text = << c >>
            /\ lex_error.line = RefLine(source, lex_reader.offset)
            /\ lex_error.character = RefColumn(source, lex_reader.offset)
            /\ tokens = << >>

\* the zero-based indices of the '\n' chars of a text, in order
RefNewlineIndices(src) ==
    LET IsNewlineAt(k) == src[k + 1] = "\n"
    IN  SelectSeq([ i \in 1 .. Len(src) |-> i - 1 ], IsNewlineAt)

\* the offsets of the Newline tokens of a stream, in order
RefNewlineOffsets(toks) ==
    LET IsNewlineToken(t) == t.kind = "Newline"
        newlines == SelectSeq(toks, IsNewlineToken)
    IN  [ i \in 1 .. Len(newlines) |-> newlines[i].offset ]

\* C17: for a source that lexes successfully, the token stream holds exactly
\* one Newline token for each '\n' outside a string literal, in source order
\* and with the offset of that '\n', whether the newline follows a token,
\* whitespace or a comment (stated here for texts without a quote, where
\* every '\n' is outside a string literal).
C17_NewlinePerLineFeed ==
    (lex_state = "ok" /\ \A i \in 1 .. Len(source) : source[i] # "\"") =>
        RefNewlineOffsets(tokens) = RefNewlineIndices(source)

\* chars of comment texts: no newline; among them the comment char itself,
\* a quote, a literal prefix and a char no rule takes
CommentChars == { ";", "x", "\"", "@" }
\* longest comment text
MaxCommentLen == 2
CommentTexts == SeqsUpTo(CommentChars, MaxCommentLen)

\* C18: for a source s that lexes successfully with all its string literals
\* closed (the cursor ends on the end of s, not past it) and every comment
\* text c without a newline, lexing s ++ " ;" ++ c returns exactly the
\* tokens that lexing s returns.
C18_CommentTransparent ==
    (lex_state = "ok" /\ lex_reader.offset = Len(source)) =>
        \A c \in CommentTexts :
            LET commented == lex(source \o << " ", ";" >> \o c)
            IN  commented.state = "ok" /\ commented.tokens = tokens

C18_Witness ==
    /\ lex_state = "ok"
    /\ source = << ".", "x", "1" >>
    /\ tokens = << Token_directive(<< "x", "1" >>, 0) >>
    /\ lex(source \o << " ", ";", "x" >>).tokens = tokens

\* the token t starts on the char at zero-based index t.offset of src: the
\* char there opens a token of t's kind, and the token's text follows it
RefStartsAt(src, t) ==
    /\ t.offset < Len(src)
    /\ LET first == src[t.offset + 1]
           TextAt(k) == /\ k + Len(t.text) <= Len(src)
                        /\ t.text = SubSeq(src, k + 1, k + Len(t.text))
       IN  CASE t.kind = "Newline" -> first = "\n"
             [] t.kind = "Comma" -> first = ","
             [] t.kind = "Directive" -> first = "." /\ TextAt(t.offset + 1)
             [] t.kind = "Str" -> first = "\"" /\ TextAt(t.offset + 1)
             [] t.kind = "Symbol" -> is_alphabetic(first) /\ TextAt(t.offset)
             [] t.kind = "Number" -> first \in { "x", "#", "-" } \/ is_numeric(first)

RefStringzNames ==
    { << "s", "t", "r", "i", "n", "g", "z" >>,
      << "S", "T", "R", "I", "N", "G", "Z" >> }

\* C20: a .STRINGZ directive followed by the token Str(s) appends exactly
\* len(s) + 1 words to the output: the character codes of s as 16-bit words
\* in order, followed by a single 0 word.
C20_StringzWords ==
    [][ LET directive == Reader_get(parse_reader, parse_reader.offset)
            string == Reader_get(parse_reader, parse_reader.offset + 1)
        IN  (/\ parse_state = "parsing"
             /\ directive.kind = "Directive"
             /\ directive.text \in RefStringzNames
             /\ string.kind = "Str") =>
                /\ parse_state' = "parsing"
                /\ Len(instructions') = Len(instructions) + Len(string.text) + 1
                /\ SubSeq(instructions', 1, Len(instructions)) = instructions
                /\ \A i \in 1 .. Len(string.text) :
                       instructions'[Len(instructions) + i]
                           = char_as_u16(string.text[i]) % WORD_MOD
                /\ instructions'[Len(instructions')] = 0
                /\ string.text = << "h", "i", "!" >> =>
                       SubSeq(instructions', Len(instructions) + 1, Len(instructions'))
                           = << 104, 105, 33, 0 >>
      ]_vars

C20_Witness ==
    /\ parse_state = "ok"
    /\ parse_reader.items = << Token_number(2, 0),
                               Token_directive(<< "S", "T", "R", "I", "N", "G", "Z" >>, 0),
                               Token_str(<< "h", "i", "!" >>, 0) >>
    /\ instructions = << 104, 105, 33, 0 >>

\* a directive's name in upper case, and the token under the parser's cursor
\* with the one after it
RefUpper(string) ==
    [ i \in 1 .. Len(string) |->
        IF string[i] \in RangeOf(AsciiLower)
        THEN AsciiUpper[IndexOf(AsciiLower, string[i])]
        ELSE string[i] ]
RefIsDirective(t, upper_name) ==
    t.kind = "Directive" /\ RefUpper(t.text) = upper_name
RefTokenHere == Reader_get(parse_reader, parse_reader.offset)
RefTokenAfter == Reader_get(parse_reader, parse_reader.offset + 1)

\* C21: for every n in 0..65535, a .BLKW directive followed by Number(n)
\* appends exactly n words, all 0, and nothing else.
C21_BlkwWords ==
    [][ (/\ parse_state = "parsing"
         /\ RefIsDirective(RefTokenHere, << "B", "L", "K", "W" >>)
         /\ RefTokenAfter.kind = "Number") =>
            /\ parse_state' = "parsing"
            /\ Len(instructions') = Len(instructions) + RefTokenAfter.value
            /\ SubSeq(instructions', 1, Len(instructions)) = instructions
            /\ \A i \in Len(instructions) + 1 .. Len(instructions') :
                   instructions'[i] = 0
            /\ orig' = orig
      ]_vars

C21_Witness ==
    /\ parse_state = "ok"
    /\ parse_reader.items = << Token_directive(<< "f", "i", "l", "l" >>, 0),
                               Token_number(7, 0),
                               Token_directive(<< "B", "L", "K", "W" >>, 0),
                               Token_number(10, 0) >>
    /\ instructions = << 7, 0, 0, 0, 0, 0, 0, 0, 0, 0, 0 >>

\* C22: a .FILL directive followed by a number operand or by a string
\* operand appends exactly one word to the output (the number's value when
\* the operand is a number) and consumes that operand token.
C22_FillOneWord ==
    [][ (/\ parse_state = "parsing"
         /\ RefIsDirective(RefTokenHere, << "F", "I", "L", "L" >>)
         /\ RefTokenAfter.kind \in { "Number", "Str" }) =>
            /\ parse_state' = "parsing"
            /\ Len(instructions') = Len(instructions) + 1
            /\ SubSeq(instructions', 1, Len(instructions)) = instructions
            /\ RefTokenAfter.kind = "Number" =>
                   instructions'[Len(instructions')] = RefTokenAfter.value
            /\ parse_reader'.offset = parse_reader.offset + 2
      ]_vars

\* the directives that take a number
RefTakesNumber(t) ==
    \/ RefIsDirective(t, << "F", "I", "L", "L" >>)
    \/ RefIsDirective(t, << "B", "L", "K", "W" >>)
    \/ RefIsDirective(t, << "O", "R", "I", "G" >>)

\* C23: when a directive that needs an operand is followed by a token of the
\* wrong kind, parse returns ParseError "expected a number" (.FILL, .BLKW,
\* .ORIG) or "expected a string literal" (.STRINGZ); when the directive is
\* the last token, parse returns ParseError "unexpected end of input"; in
\* every such case parse returns Err, so no word sequence.
C23_OperandErrors ==
    [][ parse_state = "parsing" =>
            /\ (/\ RefTakesNumber(RefTokenHere)
                /\ RefTokenAfter.kind \notin { "Number", "None" }) =>
                   /\ parse_state' = "err"
                   /\ parse_error' = [ what |-> "expected a number", text |-> << >> ]
            /\ (/\ RefIsDirective(RefTokenHere, << "S", "T", "R", "I", "N", "G", "Z" >>)
                /\ RefTokenAfter.kind \notin { "Str", "None" }) =>
                   /\ parse_state' = "err"
                   /\ parse_error' = [ what |-> "expected a string literal", text |-> << >> ]
            /\ (/\ \/ RefTakesNumber(RefTokenHere)
                   \/ RefIsDirective(RefTokenHere, << "S", "T", "R", "I", "N", "G", "Z" >>)
                /\ RefTokenAfter = NoToken) =>
                   /\ parse_state' = "err"
                   /\ parse_error' = [ what |-> "unexpected end of input", text |-> << >> ]
      ]_vars

C23_Witness ==
    /\ parse_state = "err"
    /\ parse_error.what = "unexpected end of input"
    /\ parse_reader.items = << Token_directive(<< "f", "i", "l", "l" >>, 0),
                               Token_number(2, 0),
                               Token_directive(<< "b", "l", "k", "w" >>, 0) >>

C23_WitnessWrongKind ==
    /\ parse_state = "err"
    /\ parse_error.what = "expected a string literal"
    /\ parse_reader.items = << Token_directive(<< "S", "T", "R", "I", "N", "G", "Z" >>, 0),
                               Token_number(2, 0) >>

\* C24: once pass 2 has processed an .END directive no later token has any
\* effect: every further read from the token Reader returns nothing, and
\* parse returns Ok with exactly the words emitted before .END, even when
\* the tokens after it would emit words or raise a ParseError.
C24_EndStopsParsing ==
    [][ /\ (/\ parse_state = "parsing"
            /\ RefIsDirective(RefTokenHere, << "E", "N", "D" >>)) =>
               /\ parse_state' = "parsing"
               /\ instructions' = instructions
               /\ orig' = orig
               /\ labels' = labels
               /\ Reader_peek(parse_reader') = NoToken
               /\ Reader_next(parse_reader') = parse_reader'
        /\ (/\ parse_state = "parsing"
            /\ parse_reader.offset > Len(parse_reader.items)) =>
               /\ parse_state' = "ok"
               /\ instructions' = instructions
               /\ orig' = orig
               /\ labels' = labels
      ]_vars

C24_Witness ==
    /\ parse_state = "ok"
    /\ parse_reader.items = << Token_directive(<< "f", "i", "l", "l" >>, 0),
                               Token_number(7, 0),
                               Token_directive(<< "E", "N", "D" >>, 0),
                               Token_directive(<< "b", "a", "d" >>, 0) >>
    /\ instructions = << 7 >>

\* the directive names, compared without regard to case
RefKnownDirective(t) ==
    RefUpper(t.text) \in { << "F", "I", "L", "L" >>,
                           << "S", "T", "R", "I", "N", "G", "Z" >>,
                           << "B", "L", "K", "W" >>,
                           << "O", "R", "I", "G" >>,
                           << "E", "N", "D" >> }

\* C25: a directive whose name, compared case-insensitively, is not one of
\* fill, stringz, blkw, orig, end makes parse return ParseError
\* "unrecognized directive: <name>"; assembly stops at that first error, so
\* no later token is processed and parse returns Err, no words.
C25_UnrecognizedDirective ==
    [][ /\ (/\ parse_state = "parsing"
            /\ RefTokenHere.kind = "Directive"
            /\ ~RefKnownDirective(RefTokenHere)) =>
               /\ parse_state' = "err"
               /\ parse_error' = [ what |-> "unrecognized directive",
                                   text |-> RefTokenHere.text ]
        /\ (/\ parse_state = "parsing"
            /\ parse_error'.what = "unrecognized directive") =>
               /\ RefTokenHere.kind = "Directive"
               /\ ~RefKnownDirective(RefTokenHere)
        /\ parse_state # "err"
      ]_vars

C25_Witness ==
    /\ parse_state = "err"
    /\ parse_error = [ what |-> "unrecognized directive", text |-> << "b", "a", "d" >> ]
    /\ parse_reader.items = << Token_directive(<< "f", "i", "l", "l" >>, 0),
                               Token_number(7, 0),
                               Token_directive(<< "b", "a", "d" >>, 0),
                               Token_directive(<< "f", "i", "l", "l" >>, 0),
                               Token_number(7, 0) >>
    /\ parse_reader.offset = 3

\* the positions of the Symbol tokens that are the first token of their
\* line, and the number of Newline tokens before a position
RefFirstSymbols(items) ==
    { i \in 1 .. Len(items) :
        /\ items[i].kind = "Symbol"
        /\ (i = 1 \/ items[i - 1].kind = "Newline") }
RefNewlinesBefore(items, i) ==
    Cardinality({ j \in 1 .. i - 1 : items[j].kind = "Newline" })

\* C26: after pass 1 (find_labels) the symbol table holds an entry
\* name -> line for exactly the Symbol tokens that are the first token of
\* their line, where line is the number of Newline tokens before the symbol;
\* Symbol tokens elsewhere in a line are not bound.
C26_LabelsAfterPassOne ==
    parse_state \in { "parsing", "ok", "err" } =>
        LET items == parse_reader.items
        IN  /\ DOMAIN labels = { items[i].text : i \in RefFirstSymbols(items) }
            /\ \A name \in DOMAIN labels :
                   \E i \in RefFirstSymbols(items) :
                       /\ items[i].text = name
                       /\ labels[name] = RefNewlinesBefore(items, i)

\* the instruction mnemonics, and the tokens that open a statement
RefMnemonics ==
    { << "A", "D", "D" >>, << "A", "N", "D" >>, << "B", "R" >>,
      << "J", "M", "P" >>, << "J", "S", "R" >>, << "L", "D" >>,
      << "L", "D", "I" >>, << "L", "D", "R" >>, << "L", "E", "A" >>,
      << "N", "O", "T" >>, << "R", "T", "I" >>, << "S", "T" >>,
      << "S", "T", "I" >>, << "S", "T", "R" >>, << "T", "R", "A", "P" >> }
RefIsMnemonic(t) == t.kind = "Symbol" /\ RefUpper(t.text) \in RefMnemonics
RefOpensStatement(t) == t.kind = "Directive" \/ RefIsMnemonic(t)

\* C27: .ORIG is accepted only as the first statement of the program: an
\* .ORIG processed after another statement (directive or instruction) has
\* been processed makes parse fail with a ParseError.
C27_OrigOnlyFirst ==
    [][ (/\ parse_state = "parsing"
         /\ RefIsDirective(RefTokenHere, << "O", "R", "I", "G" >>)
         /\ \E j \in 1 .. parse_reader.offset :
                RefOpensStatement(parse_reader.items[j])) =>
            parse_state' = "err"
      ]_vars

\* the positions of the .ORIG directives that no .END precedes, and the
\* origin they leave: the operand of the last one
RefOrigsProcessed(items) ==
    { i \in 1 .. Len(items) :
        /\ RefIsDirective(items[i], << "O", "R", "I", "G" >>)
        /\ \A j \in 1 .. i - 1 : ~RefIsDirective(items[j], << "E", "N", "D" >>) }
RefLastOrig(items) ==
    IF RefOrigsProcessed(items) = { } THEN NoneU16
    ELSE LET last == CHOOSE i \in RefOrigsProcessed(items) :
                         \A j \in RefOrigsProcessed(items) : j <= i
         IN  [ some |-> TRUE, val |-> items[last + 1].value ]

\* C28: an .ORIG directive followed by Number(n) records n as the origin
\* and appends no word to the output; when several .ORIG directives are
\* processed the origin is the operand of the last one.
C28_OrigRecorded ==
    [][ /\ (/\ parse_state = "parsing"
            /\ RefIsDirective(RefTokenHere, << "O", "R", "I", "G" >>)
            /\ RefTokenAfter.kind = "Number") =>
               /\ parse_state' = "parsing"
               /\ orig' = [ some |-> TRUE, val |-> RefTokenAfter.value ]
               /\ instructions' = instructions
        /\ parse_state' = "ok" => orig' = RefLastOrig(parse_reader.items)
      ]_vars

C28_Witness ==
    /\ parse_state = "ok"
    /\ parse_reader.items = << Token_directive(<< "o", "r", "i", "g" >>, 0),
                               Token_number(12288, 0),
                               Token_directive(<< "f", "i", "l", "l" >>, 0),
                               Token_number(7, 0),
                               Token_directive(<< "O", "R", "I", "G" >>, 0),
                               Token_number(2, 0) >>
    /\ orig = [ some |-> TRUE, val |-> 2 ]
    /\ instructions = << 7 >>

\* the decoded variants a mnemonic (in upper case) names
RefVariantsOf(mnemonic) ==
    CASE mnemonic = << "A", "D", "D" >> -> { "Add", "AddImmediate" }
      [] mnemonic = << "A", "N", "D" >> -> { "And", "AndImmediate" }
      [] mnemonic = << "B", "R" >> -> { "Br" }
      [] mnemonic = << "J", "M", "P" >> -> { "Jmp" }
      [] mnemonic = << "J", "S", "R" >> -> { "Jsr" }
      [] mnemonic = << "L", "D" >> -> { "Ld" }
      [] mnemonic = << "L", "D", "I" >> -> { "LdI" }
      [] mnemonic = << "L", "D", "R" >> -> { "LdR" }
      [] mnemonic = << "L", "E", "A" >> -> { "Lea" }
      [] mnemonic = << "N", "O", "T" >> -> { "Not" }
      [] mnemonic = << "R", "T", "I" >> -> { "Rti" }
      [] mnemonic = << "S", "T" >> -> { "St" }
      [] mnemonic = << "S", "T", "I" >> -> { "StI" }
      [] mnemonic = << "S", "T", "R" >> -> { "StR" }
      [] mnemonic = << "T", "R", "A", "P" >> -> { "Trap" }

\* C29: each statement whose mnemonic is one of ADD, AND, BR, JMP, JSR, LD,
\* LDI, LDR, LEA, NOT, RTI, ST, STI, STR, TRAP (in any letter case) makes
\* pass 2 emit exactly one word, and decoding that word with
\* Instruction::from yields the instruction named by the mnemonic with the
\* statement's operands (for "add R1, R2, R3": Add of R2 and R3 into R1).
C29_MnemonicEmitsWord ==
    [][ (parse_state = "parsing" /\ RefIsMnemonic(RefTokenHere)) =>
            /\ parse_state' = "parsing"
            /\ Len(instructions') = Len(instructions) + 1
            /\ SubSeq(instructions', 1, Len(instructions)) = instructions
            /\ Instruction_from(instructions'[Len(instructions')]).tag
                   \in RefVariantsOf(RefUpper(RefTokenHere.text))
            /\ RefTokenHere.text = << "a", "d", "d" >> =>
                   Instruction_from(instructions'[Len(instructions')])
                       = [ tag |-> "Add", dest |-> 1, source_1 |-> 2, source_2 |-> 3 ]
      ]_vars

\* the words the statement opened by token j of items stands for, and the
\* address (relative to the origin) of the statement opened by token k
RefWordsOf(items, j) ==
    LET operand == IF j < Len(items) THEN items[j + 1] ELSE NoToken
    IN  CASE RefIsMnemonic(items[j]) -> 1
          [] RefIsDirective(items[j], << "F", "I", "L", "L" >>) -> 1
          [] RefIsDirective(items[j], << "B", "L", "K", "W" >>) -> operand.value
          [] RefIsDirective(items[j], << "S", "T", "R", "I", "N", "G", "Z" >>) ->
                 Len(operand.text) + 1
          [] OTHER -> 0
RECURSIVE RefAddressOf(_, _)
RefAddressOf(items, k) ==
    IF k <= 1 THEN 0
    ELSE RefAddressOf(items, k - 1) + RefWordsOf(items, k - 1)

\* the mnemonics with a register and a 9-bit PC-relative operand, and the
\* positions where a label is declared
RefPcRelative ==
    { << "L", "D" >>, << "L", "D", "I" >>, << "L", "E", "A" >>,
      << "S", "T" >>, << "S", "T", "I" >> }
RefDeclarations(items, name) ==
    { k \in RefFirstSymbols(items) :
        items[k].text = name /\ ~RefIsMnemonic(items[k]) }

\* C30: a label operand of a PC-relative instruction is emitted as
\* address_of(label) minus (address of the referencing instruction + 1),
\* and when that value does not fit the signed width of the destination
\* field parse returns a ParseError instead of emitting a wrapped value
\* (stated for the statements "<mnemonic> <register>, <label>" whose label
\* is declared once).
C30_LabelOperandOffset ==
    [][ LET items == parse_reader.items
            i == parse_reader.offset + 1
        IN  (/\ parse_state = "parsing"
             /\ parse_reader.offset < Len(items)
             /\ i + 3 <= Len(items)
             /\ items[i].kind = "Symbol"
             /\ RefUpper(items[i].text) \in RefPcRelative
             /\ items[i + 1].kind = "Symbol"
             /\ items[i + 2].kind = "Comma"
             /\ items[i + 3].kind = "Symbol"
             /\ Cardinality(RefDeclarations(items, items[i + 3].text)) = 1) =>
                LET k == CHOOSE d \in RefDeclarations(items, items[i + 3].text) : TRUE
                    target == RefAddressOf(items, k) - (RefAddressOf(items, i) + 1)
                IN  IF target \in -256 .. 255
                    THEN /\ parse_state' = "parsing"
                         /\ Len(instructions') = Len(instructions) + 1
                         /\ Instruction_from(instructions'[Len(instructions')]).pc_offset
                                = target % WORD_MOD
                    ELSE parse_state' = "err"
      ]_vars

\* C31: for both Readers, peek() and next() on a cursor at or past the end
\* of the items return None, and such a next() leaves offset, line and the
\* in-line offset unchanged, so repeated calls keep returning None.
C31_ReadersAtEnd ==
    [][ /\ (/\ call'.fn \in { "LexReader_peek", "LexReader_next" }
            /\ lex_reader.offset >= Len(source)) =>
               /\ ret' = Returned(NONE)
               /\ lex_reader' = lex_reader
        /\ (/\ call'.fn \in { "Reader_peek", "Reader_next" }
            /\ parse_reader.offset >= Len(parse_reader.items)) =>
               /\ ret' = Returned(NoToken)
               /\ parse_reader' = parse_reader
      ]_vars

\* the items successive next() calls return from a Reader, up to the first
\* None, together with the cursor after each
RECURSIVE RefDrain(_)
RefDrain(r) ==
    IF r.offset >= Len(r.items) THEN << >>
    ELSE << [ item |-> Reader_peek(r), after |-> Reader_next(r) ] >>
         \o RefDrain(Reader_next(r))

\* C32: after reset() in any Reader state, offset, line and item_in_line
\* are 0 and the item sequence is unchanged, so the items successive next()
\* calls return after reset are exactly those a fresh Reader returns (with
\* the same line and in-line counts): all the items, from item 0.
C32_ResetRewinds ==
    [][ call'.fn = "Reader_reset" =>
            /\ parse_reader'.offset = 0
            /\ parse_reader'.line = 0
            /\ parse_reader'.item_in_line = 0
            /\ parse_reader'.items = parse_reader.items
            /\ RefDrain(parse_reader') = RefDrain(Reader_from(parse_reader.items))
            /\ [ i \in 1 .. Len(RefDrain(parse_reader')) |->
                   RefDrain(parse_reader')[i].item ] = parse_reader.items
      ]_vars

C32_Witness ==
    /\ call.fn = "Reader_reset"
    /\ parse_reader = Reader_from(<< Token_symbol(<< "a" >>, 0), Token_newline(0),
                                     Token_symbol(<< "a" >>, 0) >>)
    /\ lex_reader.offset = 0

\* of the first n of some items, with the positions of the line boundaries
\* among them: how many boundaries there are, and how many items follow the
\* last one
RefLinesIn(boundaries, n) == Cardinality({ j \in boundaries : j <= n })
RefSinceBoundary(boundaries, n) ==
    Cardinality({ j \in 1 .. n : \A b \in boundaries : b > n \/ b < j })
RefMin(a, b) == IF a < b THEN a ELSE b

\* C33: in every state a Reader reaches from a fresh or reset state by any
\* sequence of peek/next/skip_while/take_while calls, line is the number of
\* line-boundary items among the items consumed so far and the in-line
\* offset is the number of items consumed since the last consumed boundary
\* item, or since the start if there is none.
C33_LineCounters ==
    LET chars == { j \in 1 .. Len(source) : source[j] = "\n" }
        chars_consumed == RefMin(lex_reader.offset, Len(source))
        items == { j \in 1 .. Len(parse_reader.items) :
                     parse_reader.items[j].kind = "Newline" }
        items_consumed == RefMin(parse_reader.offset, Len(parse_reader.items))
    IN  /\ lex_reader.line = RefLinesIn(chars, chars_consumed)
        /\ lex_reader.char_in_line = RefSinceBoundary(chars, chars_consumed)
        /\ parse_reader.line = RefLinesIn(items, items_consumed)
        /\ parse_reader.item_in_line = RefSinceBoundary(items, items_consumed)

\* the run of letters and digits of a text from zero-based index k on
RECURSIVE RefWordFrom(_, _)
RefWordFrom(src, k) ==
    IF k < Len(src)
       /\ src[k + 1] \in RangeOf(AsciiDigits) \cup RangeOf(AsciiLower) \cup RangeOf(AsciiUpper)
    THEN << src[k + 1] >> \o RefWordFrom(src, k + 1)
    ELSE << >>

\* C34: the rules apply in the listed order, so a word that begins with
\* lower-case 'x' is always handled by the hex-literal rule and never gives
\* a Symbol token: it gives a Number when the alphanumeric run after 'x' is
\* a base-16 value in 0..0xFFFF and a LexError otherwise.
C34_HexRuleBeforeSymbol ==
    [][ (lex_state = "lexing" /\ LexReader_peek(source, lex_reader) = "x") =>
            LET run == RefWordFrom(source, lex_reader.offset + 1)
            IN  IF RefValidNumber(run, 16)
                THEN /\ lex_state' = "lexing"
                     /\ tokens' = Append(tokens,
                            Token_number(RefRadixValue(run, 16), lex_reader.offset))
                     /\ lex_reader'.offset = lex_reader.offset + 1 + Len(run)
                ELSE /\ lex_state' = "err"
                     /\ lex_error'.message.what = "invalid hex literal"
      ]_vars

C34_Witness ==
    /\ lex_state = "ok"
    /\ source = << " ", "x", "1" >>
    /\ tokens = << Token_number(1, 1) >>

\* C35: for every finite source text the lexer terminates: every call of
\* lex_char either returns an error or advances the reader by at least one
\* character, so the lex loop ends with a token list or a LexError after at
\* most one step per source character.
C35_LexTerminates ==
    [][ lex_state = "lexing" =>
            \/ lex_state' = "err"
            \/ /\ lex_state' = "ok"
               /\ lex_reader.offset >= Len(source)
            \/ /\ lex_state' = "lexing"
               /\ lex_reader.offset < Len(source)
               /\ lex_reader'.offset > lex_reader.offset
      ]_vars

\* the register-index fields an Instruction variant can carry
RefRegFields == { "dest", "source", "source_1", "source_2", "base" }

\* C36: every register-index field (dest, source, source_1, source_2, base)
\* of every variant returned by Instruction::from is in 0..7, so get_reg and
\* set_reg called with such a field never index outside the 8-element
\* register file.
C36_RegisterFieldsInRange ==
    DecodeReturned =>
        \A field \in RefRegFields \cap DOMAIN ret.val :
            /\ ret.val[field] \in 0..7
            /\ ~get_reg_panics(ret.val[field])
            /\ ~set_reg_panics(ret.val[field])

C36_Witness ==
    /\ DecodeReturned
    /\ ret.val.tag = "LdR"
    /\ ret.val.dest = 7
    /\ ret.val.base = 7

\* C37: executing Add{dest, source_1, source_2} changes no part of the
\* machine state other than regs[dest]: memory, pc, the condition codes and
\* the other seven registers have the values they had before the instruction.
C37_AddFrame ==
    [][ (call.fn = "execute" /\ call.instruction.tag = "Add") =>
            /\ memory' = memory
            /\ pc' = pc
            /\ << cc_neg', cc_pos', cc_zero' >> = << cc_neg, cc_pos, cc_zero >>
            /\ \A i \in RegIndex \ { call.instruction.dest } : regs'[i] = regs[i]
      ]_vars

C37_Witness ==
    /\ call.fn = "execute"
    /\ call.instruction = [ tag |-> "Add", dest |-> 2, source_1 |-> 0, source_2 |-> 1 ]
    /\ ret.state = "returned"
    /\ regs = [ i \in RegIndex |-> CASE i = 0 -> 1 [] i = 1 -> 2 [] i = 2 -> 3 [] OTHER -> 0 ]

====
